---- MODULE Spec2Model ----
(***************************************************************************)
(* DataPak: container format, reader (archive), codec, stream (vfstream)   *)
(* and the virtual file system (vfs) that overlays mounted archives.       *)
(*                                                                         *)
(* Bytes are naturals in 0..255, byte vectors and strings are sequences of *)
(* bytes.  A std::expected value is a record with an "ok" field.           *)
(* A local of the code that later code reads is written as the parameter   *)
(* of a LET operator applied to the local's value.                         *)
(***************************************************************************)
EXTENDS Integers, Sequences, FiniteSets, TLC

(***************************************************************************)
(* format.hpp                                                              *)
(***************************************************************************)
MAGIC_NUMBER == 1346456390

FORMAT_VERSION == 1

none == 0

deflate == 1

zstd == 2

\* sizeof(archive_header): u32 magic, u32 version, u64 directory_offset,
\* u32 directory_count, u32 reserved.
HeaderSize == 24

\* The bound on filename_length that load_directory accepts (exclusive).
MaxNameLen == 4096

(***************************************************************************)
(* State.  disk_ is the file system: the bytes of the file at each path    *)
(* that names a file.  archives_, cache_enabled_, search_order_ and cache_ *)
(* are the members of one vfs object; files_ and default_compression_      *)
(* those of one archive_builder.  last is the vfs call made last with what *)
(* it returned, called the archive_builder call made last; opened is a     *)
(* history variable of the vfs (see below).  bytes_ is a byte vector handed *)
(* to the codec, stream_ one vfstream, reader_ the archive objects a        *)
(* caller constructed itself (none or one); returned is the call made last *)
(* on the codec, the stream or the reader with what it returned.           *)
(***************************************************************************)
VARIABLES disk_, archives_, cache_enabled_, search_order_, cache_, last, opened,
          files_, default_compression_, called,
          bytes_, stream_, reader_, returned

vfs_vars == <<archives_, cache_enabled_, search_order_, cache_, last, opened>>

builder_vars == <<files_, default_compression_, called>>

unit_vars == <<bytes_, stream_, reader_, returned>>

vars == <<disk_, vfs_vars, builder_vars, unit_vars>>

(***************************************************************************)
(* Little-endian integers, as memcpy / read / write of a u32, u64 or u8    *)
(* lays them out on the (little-endian) build targets.                     *)
(***************************************************************************)
RECURSIVE LEBytes(_, _)
LEBytes(v, n) ==
    IF n = 0 THEN <<>> ELSE <<v % 256>> \o LEBytes(v \div 256, n - 1)

RECURSIVE LEValue(_)
LEValue(bs) ==
    IF bs = <<>> THEN 0 ELSE Head(bs) + 256 * LEValue(Tail(bs))

\* A u64 is kept as the integer of least magnitude that is congruent to it
\* modulo 2^64: the values from 2^63 on are negative (2^64 - 1 is -1), so
\* that + is the wrapping sum of the code.  Only values within 2^31 of 0 or
\* of 2^64 occur.
U64Value(bs) ==
    IF bs[Len(bs)] >= 128
    THEN 0 - 1 - LEValue([i \in 1..Len(bs) |-> 255 - bs[i]])
    ELSE LEValue(bs)

\* a > b on u64.
u64_gt(a, b) == IF (a < 0) = (b < 0) THEN a > b ELSE a < 0

\* The bytes of b at offsets [pos, pos + n), offsets counted from 0.
Slice(b, pos, n) == SubSeq(b, pos + 1, pos + n)

Min(a, b) == IF a < b THEN a ELSE b

Max(a, b) == IF a > b THEN a ELSE b

\* A value-initialised object of n bytes overwritten by the bytes a read
\* delivered (a short read leaves the tail at zero).
ZeroPad(bs, n) == bs \o [i \in 1..(n - Len(bs)) |-> 0]

(***************************************************************************)
(* compression.cpp.  zlib is a library outside the repository: a deflate   *)
(* stream is modelled as a self-terminating token stream, a literal token  *)
(* <<1, b>> per data byte followed by the end marker <<0>>; any other      *)
(* token tag is corrupt data.  inflate reports how it ended and how much   *)
(* input it left unread.  All buffers are shorter than chunk_size, so the  *)
(* do/while loops run once.                                                *)
(***************************************************************************)
RECURSIVE zlib_deflate(_)
zlib_deflate(data) ==
    IF data = <<>> THEN <<0>>
    ELSE <<1, Head(data)>> \o zlib_deflate(Tail(data))

RECURSIVE zlib_inflate(_, _)
zlib_inflate(in, out) ==
    IF in = <<>> THEN
        [result |-> "Z_BUF_ERROR", out |-> out, avail_in |-> 0]
    ELSE IF Head(in) = 0 THEN
        [result |-> "Z_STREAM_END", out |-> out, avail_in |-> Len(in) - 1]
    ELSE IF Head(in) = 1 THEN
        IF Len(in) = 1 THEN
            [result |-> "Z_OK", out |-> out, avail_in |-> 0]
        ELSE zlib_inflate(Tail(Tail(in)), Append(out, in[2]))
    ELSE [result |-> "Z_DATA_ERROR", out |-> out, avail_in |-> Len(in)]

deflate_compress(data) == [ok |-> TRUE, value |-> zlib_deflate(data), error |-> ""]

deflate_decompress(compressed_data, uncompressed_size) ==
    LET Inflated(z) ==
            IF z.result \in {"Z_STREAM_ERROR", "Z_DATA_ERROR", "Z_MEM_ERROR"} THEN
                [ok |-> FALSE, value |-> <<>>, error |-> "decompression_failed"]
            ELSE IF z.result # "Z_STREAM_END" /\ z.avail_in > 0 THEN
                [ok |-> FALSE, value |-> <<>>, error |-> "decompression_failed"]
            ELSE [ok |-> TRUE, value |-> z.out, error |-> ""]
    IN  Inflated(zlib_inflate(compressed_data, <<>>))

compress(data, method) ==
    IF method = none THEN [ok |-> TRUE, value |-> data, error |-> ""]
    ELSE IF method = deflate THEN deflate_compress(data)
    ELSE [ok |-> FALSE, value |-> <<>>, error |-> "invalid_method"]

\* decompress that gives stored data the expected length: cut or padded.
decompress_resized(compressed_data, method, uncompressed_size) ==
    IF method = none
    THEN [ok |-> TRUE, error |-> "",
          value |-> ZeroPad(SubSeq(compressed_data, 1,
                                   Min(uncompressed_size, Len(compressed_data))),
                            uncompressed_size)]
    ELSE IF method = deflate THEN deflate_decompress(compressed_data, uncompressed_size)
    ELSE [ok |-> FALSE, value |-> <<>>, error |-> "invalid_method"]

decompress(compressed_data, method, uncompressed_size) ==
    IF method = none THEN [ok |-> TRUE, value |-> compressed_data, error |-> ""]
    ELSE IF method = deflate THEN deflate_decompress(compressed_data, uncompressed_size)
    ELSE [ok |-> FALSE, value |-> <<>>, error |-> "invalid_method"]

(***************************************************************************)
(* vfstream.cpp.  A vfstreambuf is its byte vector data_ and the get       *)
(* pointer, kept as the offset gptr() - eback(); a vfstream adds the       *)
(* std::istream state bits that the calls made on it can set.              *)
(***************************************************************************)
vfstream(data) == [data_ |-> data, gpos |-> 0, failbit |-> FALSE, eofbit |-> FALSE]

xsgetn(s, count) ==
    LET Get(to_read) ==
            IF to_read > 0
            THEN [s |-> [s EXCEPT !.gpos = s.gpos + to_read],
                  got |-> Slice(s.data_, s.gpos, to_read)]
            ELSE [s |-> s, got |-> <<>>]
    IN  Get(Min(count, Len(s.data_) - s.gpos))

\* seekoff without the check of new_pos against [0, data_.size()].
seekoff_unchecked(s, off, way) ==
    LET Seek(new_pos) == [s |-> [s EXCEPT !.gpos = new_pos], pos |-> new_pos]
    IN  Seek(CASE way = "beg" -> off
               [] way = "cur" -> s.gpos + off
               [] way = "end" -> Len(s.data_) + off)

seekoff(s, off, way) ==
    LET Seek(new_pos) ==
            IF new_pos < 0 \/ new_pos > Len(s.data_)
            THEN [s |-> s, pos |-> -1]
            ELSE [s |-> [s EXCEPT !.gpos = new_pos], pos |-> new_pos]
    IN  Seek(CASE way = "beg" -> off
               [] way = "cur" -> s.gpos + off
               [] way = "end" -> Len(s.data_) + off)

\* std::istream::seekg(off, dir): clears eofbit, and seeks unless fail().
seekg(s, off, way) ==
    LET Sought(c, r) == IF r.pos = -1 THEN [c EXCEPT !.failbit = TRUE] ELSE r.s
        Cleared(c) == IF c.failbit THEN c ELSE Sought(c, seekoff(c, off, way))
    IN  Cleared([s EXCEPT !.eofbit = FALSE])

\* std::ios::clear(): the state bits are reset, the buffer is not touched.
clear(s) == [s EXCEPT !.failbit = FALSE, !.eofbit = FALSE]

\* std::istream::tellg(): -1 when fail(), else the position.
tellg(s) == IF s.failbit THEN -1 ELSE seekoff(s, 0, "cur").pos

\* std::istream::read(buf, count): a short read sets eofbit and failbit.
read(s, count) ==
    LET Got(r) ==
            IF Len(r.got) < count
            THEN [s |-> [r.s EXCEPT !.failbit = TRUE, !.eofbit = TRUE], got |-> r.got]
            ELSE r
    IN  IF s.failbit \/ s.eofbit
        THEN [s |-> [s EXCEPT !.failbit = TRUE], got |-> <<>>]
        ELSE Got(xsgetn(s, count))

(***************************************************************************)
(* The source tree the builder reads: the bytes of each source file, and   *)
(* for each source directory the regular files a recursive walk finds,     *)
(* each with its path relative to the directory as the platform spells it  *)
(* (92 is a backslash, 47 a slash).  No operation writes to the sources.   *)
(***************************************************************************)
SourceFiles ==
    [source_path \in {"a/p", "b/p", "b/q", "c/p", "c/q", "d/p", "dir/s/t"} |->
        CASE source_path = "a/p" -> <<10, 11>>
          [] source_path = "b/p" -> <<20>>
          [] source_path = "b/q" -> <<21>>
          [] source_path = "c/p" -> <<30>>
          [] source_path = "c/q" -> <<31>>
          [] source_path = "d/p" -> <<40>>
          [] source_path = "dir/s/t" -> <<>>]

SourceDirs ==
    [directory_path \in {"dir"} |->
        <<[path |-> "dir/s/t", relative_path |-> <<115, 92, 116>>]>>]

source_exists(source_path) == source_path \in DOMAIN SourceFiles

source_bytes(source_path) ==
    IF source_path \in DOMAIN SourceFiles THEN SourceFiles[source_path] ELSE <<>>

\* std::ifstream input(source_path): a regular file opens, and so does a
\* directory.
source_opens(source_path) ==
    source_exists(source_path) \/ source_path \in DOMAIN SourceDirs

\* std::vector<std::byte> data(file_size) with file_size = tellg() at the
\* end of the source: the length of a regular file.  The end of a directory
\* is the largest offset there is (2^63 - 1), a size no vector is
\* constructed with: the constructor throws, whatever input.read would
\* have reported afterwards.
vector_fits(source_path) == source_exists(source_path)

(***************************************************************************)
(* archive_builder.cpp: build.  An output file that opened takes every     *)
(* write: the output stream fails at its opening or not at all.            *)
(***************************************************************************)
header_bytes(directory_offset, directory_count) ==
    LEBytes(MAGIC_NUMBER, 4) \o LEBytes(FORMAT_VERSION, 4) \o
    LEBytes(directory_offset, 8) \o LEBytes(directory_count, 4) \o LEBytes(0, 4)

entry_bytes(entry) ==
    LEBytes(Len(entry.filename), 4) \o entry.filename \o
    LEBytes(entry.data_offset, 8) \o LEBytes(entry.compressed_size, 8) \o
    LEBytes(entry.uncompressed_size, 8) \o <<entry.compression>>

\* data.size() after compressed_data = std::move(data): the vector was moved
\* from.  Whether the library's move assignment takes over the buffer or
\* swaps with the (empty) compressed_data, data is left empty.
moved_from_size(data) == 0

\* The loop over files_ with current_offset never advanced: every entry
\* records the offset of the first.
RECURSIVE write_data_offset_kept(_, _, _)
write_data_offset_kept(files, output, directory) ==
    LET Written(file, data, result) ==
            IF ~result.ok
            THEN [ok |-> FALSE, output |-> output, directory |-> directory,
                  error |-> "compression_error"]
            ELSE write_data_offset_kept(
                    Tail(files), output \o result.value,
                    Append(directory,
                           [filename |-> file.archive_path,
                            data_offset |-> HeaderSize,
                            compressed_size |-> Len(result.value),
                            uncompressed_size |->
                                IF file.compression # none THEN Len(data)
                                ELSE moved_from_size(data),
                            compression |-> file.compression]))
        Compressed(file, data) ==
            Written(file, data,
                    IF file.compression # none
                    THEN compress(data, file.compression)
                    ELSE [ok |-> TRUE, value |-> data, error |-> ""])
        Source(file) ==
            IF ~source_opens(file.source_path)
            THEN [ok |-> FALSE, output |-> output, directory |-> directory,
                  error |-> "file_not_found"]
            ELSE IF ~vector_fits(file.source_path)
            THEN [ok |-> FALSE, output |-> output, directory |-> directory,
                  error |-> "bad_alloc"]
            ELSE Compressed(file, source_bytes(file.source_path))
    IN  IF files = <<>>
        THEN [ok |-> TRUE, output |-> output, directory |-> directory, error |-> ""]
        ELSE Source(Head(files))

\* The loop over files_: output is what was written so far, directory the
\* entries collected, current_offset = Len(output).  data is only moved
\* from when the entry is stored uncompressed.
RECURSIVE write_data(_, _, _)
write_data(files, output, directory) ==
    LET Written(file, data, result) ==
            IF ~result.ok
            THEN [ok |-> FALSE, output |-> output, directory |-> directory,
                  error |-> "compression_error"]
            ELSE write_data(Tail(files), output \o result.value,
                            Append(directory,
                                   [filename |-> file.archive_path,
                                    data_offset |-> Len(output),
                                    compressed_size |-> Len(result.value),
                                    uncompressed_size |->
                                        IF file.compression # none THEN Len(data)
                                        ELSE moved_from_size(data),
                                    compression |-> file.compression]))
        Compressed(file, data) ==
            Written(file, data,
                    IF file.compression # none
                    THEN compress(data, file.compression)
                    ELSE [ok |-> TRUE, value |-> data, error |-> ""])
        Source(file) ==
            IF ~source_opens(file.source_path)
            THEN [ok |-> FALSE, output |-> output, directory |-> directory,
                  error |-> "file_not_found"]
            ELSE IF ~vector_fits(file.source_path)
            THEN [ok |-> FALSE, output |-> output, directory |-> directory,
                  error |-> "bad_alloc"]
            ELSE Compressed(file, source_bytes(file.source_path))
    IN  IF files = <<>>
        THEN [ok |-> TRUE, output |-> output, directory |-> directory, error |-> ""]
        ELSE Source(Head(files))

RECURSIVE write_directory(_)
write_directory(directory) ==
    IF directory = <<>> THEN <<>>
    ELSE entry_bytes(Head(directory)) \o write_directory(Tail(directory))

\* build without the rewrite of the header at its end.
build_placeholder_header(files) ==
    LET Finish(w) ==
            IF ~w.ok THEN [ok |-> FALSE, output |-> w.output, error |-> w.error]
            ELSE [ok |-> TRUE, output |-> w.output \o write_directory(w.directory),
                  error |-> ""]
    IN  Finish(write_data(files, header_bytes(0, Len(files)), <<>>))

\* The output file of build once it opened, and build's result.  On failure
\* the file keeps the placeholder header and what was written before the
\* failing entry.  w.directory is the local directory of build.  The error
\* "bad_alloc" is the exception that leaves build.
build(files) ==
    LET Finish(w) ==
            IF ~w.ok THEN [ok |-> FALSE, output |-> w.output, error |-> w.error]
            ELSE [ok |-> TRUE,
                  output |-> header_bytes(Len(w.output), Len(files))
                             \o Slice(w.output, HeaderSize, Len(w.output) - HeaderSize)
                             \o write_directory(w.directory),
                  error |-> ""]
    IN  Finish(write_data(files, header_bytes(0, Len(files)), <<>>))

(***************************************************************************)
(* The files on disk before any vfs or archive_builder call: the           *)
(* containers that readers are constructed on.  A path outside the domain  *)
(* of disk_ names no file.                                                 *)
(***************************************************************************)
name_p == <<112>>

name_q == <<113>>

name_z == <<122>>

\* b with the bytes at offsets [pos, pos + Len(bs)) replaced by bs.
Patch(b, pos, bs) ==
    [i \in 1..Len(b) |-> IF i > pos /\ i <= pos + Len(bs) THEN bs[i - pos] ELSE b[i]]

File(source_path, archive_path, compression) ==
    [source_path |-> source_path, archive_path |-> archive_path,
     compression |-> compression]

\* What each container was built from.
Sources ==
    [path \in {"a.pak", "b.pak", "c.pak", "d.pak", "h.pak", "m.pak", "t.pak", "v.pak"} |->
        CASE path = "a.pak" -> <<File("a/p", name_p, deflate)>>
          [] path \in {"b.pak", "h.pak", "m.pak", "t.pak", "v.pak"}
             -> <<File("b/p", name_p, none), File("b/q", name_q, none)>>
          [] path = "c.pak" -> <<File("c/p", name_p, none), File("c/q", name_q, none)>>
          [] path = "d.pak" -> <<File("d/p", name_p, none)>>]

\* c.pak after the build: the compressed_size of q (the second directory
\* entry) is rewritten so that its data range ends after the end of the
\* file.  p is untouched.
OversizeSecond(img) ==
    Patch(img, LEValue(Slice(img, 8, 8)) + (4 + Len(name_p) + 25) + 4 + Len(name_q) + 8,
          LEBytes(Len(img), 8))

\* d.pak after the build: the compression byte of its one entry (the last
\* byte of the file) is rewritten to zstd, which the codec does not
\* implement.
ZstdLast(img) == Patch(img, Len(img) - 1, <<zstd>>)

\* h.pak: only the first four bytes of the container are left.
HeaderCut(img) == SubSeq(img, 1, 4)

\* m.pak: the last byte of the magic number is rewritten.
MagicChanged(img) == Patch(img, 3, <<(img[4] + 1) % 256>>)

\* v.pak: the version is rewritten to the next one.
VersionChanged(img) == Patch(img, 4, LEBytes(FORMAT_VERSION + 1, 4))

\* t.pak: the file ends where the directory entry of q (the second and
\* last) would begin.
DirectoryCut(img) == SubSeq(img, 1, Len(img) - (4 + Len(name_q) + 25))

Disk ==
    [path \in DOMAIN Sources |->
        CASE path = "c.pak" -> OversizeSecond(build(Sources[path]).output)
          [] path = "d.pak" -> ZstdLast(build(Sources[path]).output)
          [] path = "h.pak" -> HeaderCut(build(Sources[path]).output)
          [] path = "m.pak" -> MagicChanged(build(Sources[path]).output)
          [] path = "t.pak" -> DirectoryCut(build(Sources[path]).output)
          [] path = "v.pak" -> VersionChanged(build(Sources[path]).output)
          [] OTHER -> build(Sources[path]).output]

file_exists(path) == path \in DOMAIN disk_

file_bytes(path) == IF path \in DOMAIN disk_ THEN disk_[path] ELSE <<>>

(***************************************************************************)
(* archive.cpp.  An archive is [path_, mode_, failed, memory_data_,        *)
(* directory_]: failed is the failbit of file_stream_ (std::ifstream).     *)
(* The stream's position is not kept: every access seeks first, and a      *)
(* stream with failbit set neither seeks nor reads.                        *)
(***************************************************************************)
\* std::ifstream over the bytes file: fs = [pos, fail].
\* seekg(pos): no effect once failbit is set; a u64 from 2^63 on is a
\* negative stream offset, which the file rejects (failbit).
fs_seekg(fs, pos) ==
    IF fs.fail THEN fs
    ELSE IF pos < 0 THEN [fs EXCEPT !.fail = TRUE]
    ELSE [fs EXCEPT !.pos = pos]

\* read(buf, n): delivers the bytes there are, a short read sets failbit
\* (and eofbit); nothing is read once failbit is set.
fs_read(file, fs, n) ==
    LET Take(k) == [fs |-> [pos |-> fs.pos + k, fail |-> k < n],
                    got |-> Slice(file, fs.pos, k)]
    IN  IF fs.fail THEN [fs |-> fs, got |-> <<>>]
        ELSE Take(Min(n, Max(0, Len(file) - fs.pos)))

\* The insertion that keeps the entry the directory already has for the name.
Insert_keep_first(directory, entry) ==
    IF entry.filename # <<>>
    THEN directory @@ (entry.filename :> [data_offset |-> entry.data_offset,
                                          compressed_size |-> entry.compressed_size,
                                          uncompressed_size |-> entry.uncompressed_size,
                                          compression |-> entry.compression])
    ELSE directory

Insert(directory, entry) ==
    IF entry.filename # <<>>
    THEN (entry.filename :> [data_offset |-> entry.data_offset,
                             compressed_size |-> entry.compressed_size,
                             uncompressed_size |-> entry.uncompressed_size,
                             compression |-> entry.compression]) @@ directory
    ELSE directory

\* The advance of current_pos that counts only the bytes the loop has read:
\* the name of a malformed entry is left out.
next_entry_pos_bytes_read(current_pos, filename_length) ==
    current_pos + 4
    + (IF filename_length > 0 /\ filename_length < MaxNameLen THEN filename_length ELSE 0)
    + 8 + 8 + 8 + 1

\* The advance of current_pos at the end of the loop body in disk mode.
next_entry_pos(current_pos, filename_length) ==
    current_pos + 4 + filename_length + 8 + 8 + 8 + 1

\* The directory loop in disk mode: no read is checked.  r0 .. r5 are the
\* six reads of one entry, in order.  The name of an entry with a malformed
\* filename_length is not read, so its three u64 fields are read from where
\* the name begins; the entry is dropped and their values (any u64) are not
\* kept.
RECURSIVE load_entries_disk(_, _, _, _, _)
load_entries_disk(file, fs, current_pos, remaining, directory) ==
    LET Entry(filename_length, valid, r1, r2, r3, r4, r5) ==
            load_entries_disk(
                file, r5.fs, next_entry_pos(current_pos, filename_length), remaining - 1,
                Insert(directory,
                       [filename |-> IF valid THEN ZeroPad(r1.got, filename_length)
                                     ELSE <<>>,
                        data_offset |-> IF valid THEN U64Value(ZeroPad(r2.got, 8)) ELSE 0,
                        compressed_size |-> IF valid THEN U64Value(ZeroPad(r3.got, 8)) ELSE 0,
                        uncompressed_size |-> IF valid THEN U64Value(ZeroPad(r4.got, 8)) ELSE 0,
                        compression |-> LEValue(ZeroPad(r5.got, 1))]))
        Read5(filename_length, valid, r1, r2, r3, r4) ==
            Entry(filename_length, valid, r1, r2, r3, r4, fs_read(file, r4.fs, 1))
        Read4(filename_length, valid, r1, r2, r3) ==
            Read5(filename_length, valid, r1, r2, r3, fs_read(file, r3.fs, 8))
        Read3(filename_length, valid, r1, r2) ==
            Read4(filename_length, valid, r1, r2, fs_read(file, r2.fs, 8))
        Read2(filename_length, valid, r1) ==
            Read3(filename_length, valid, r1, fs_read(file, r1.fs, 8))
        Read1(r0, filename_length, valid) ==
            Read2(filename_length, valid,
                  IF valid THEN fs_read(file, r0.fs, filename_length)
                  ELSE [fs |-> r0.fs, got |-> <<>>])
        Length(r0, filename_length) ==
            Read1(r0, filename_length, filename_length > 0 /\ filename_length < MaxNameLen)
        Read0(r0) == Length(r0, LEValue(ZeroPad(r0.got, 4)))
    IN  IF remaining = 0
        THEN [ok |-> TRUE, fs |-> fs, directory |-> directory, error |-> ""]
        ELSE Read0(fs_read(file, fs_seekg(fs, current_pos), 4))

\* The directory loop in memory mode: every range is checked first, with
\* u64 sums.  A sum that wraps passes the check with current_pos beyond
\* the buffer: the memcpy then reads outside memory_data_, which is
\* undefined behaviour and reported here as "out_of_bounds" for the caller
\* to draw the outcome.  (filename_length is a u32 below 2^31 and the later
\* positions are inside the buffer, so only the first sum can wrap.)
RECURSIVE load_entries_memory(_, _, _, _)
load_entries_memory(memory_data, current_pos, remaining, directory) ==
    LET Fields(filename_length, pos1, pos2) ==
            IF u64_gt(pos1 + filename_length, Len(memory_data))
            THEN [ok |-> FALSE, directory |-> directory, error |-> "read_error"]
            ELSE IF u64_gt(pos2 + 8 + 8 + 8 + 1, Len(memory_data))
            THEN [ok |-> FALSE, directory |-> directory, error |-> "read_error"]
            ELSE load_entries_memory(
                    memory_data, pos2 + 25, remaining - 1,
                    Insert(directory,
                           [filename |->
                                IF filename_length > 0 /\ filename_length < MaxNameLen
                                THEN Slice(memory_data, pos1, filename_length)
                                ELSE <<>>,
                            data_offset |-> U64Value(Slice(memory_data, pos2, 8)),
                            compressed_size |-> U64Value(Slice(memory_data, pos2 + 8, 8)),
                            uncompressed_size |-> U64Value(Slice(memory_data, pos2 + 16, 8)),
                            compression |-> LEValue(Slice(memory_data, pos2 + 24, 1))]))
        Length(filename_length) ==
            Fields(filename_length, current_pos + 4, current_pos + 4 + filename_length)
    IN  IF remaining = 0 THEN [ok |-> TRUE, directory |-> directory, error |-> ""]
        ELSE IF u64_gt(current_pos + 4, Len(memory_data))
        THEN [ok |-> FALSE, directory |-> directory, error |-> "read_error"]
        ELSE IF current_pos < 0
        THEN [ok |-> FALSE, directory |-> directory, error |-> "out_of_bounds"]
        ELSE Length(LEValue(Slice(memory_data, current_pos, 4)))

EmptyDirectory == [name \in {} |-> 0]

\* load_directory on a reader whose constructor has opened file_stream_
\* (disk; is_open tells whether the file exists) or filled memory_data_.
\* Returns [ok, error, failed, directory]; h is the header read.
load_directory(mode, is_open, file, memory_data) ==
    LET Fail(e) == [ok |-> FALSE, error |-> e, failed |-> FALSE, directory |-> EmptyDirectory]
        LoadedDisk(l) ==
            [ok |-> TRUE, error |-> "", failed |-> l.fs.fail, directory |-> l.directory]
        LoadedMemory(l) ==
            [ok |-> l.ok, error |-> l.error, failed |-> FALSE, directory |-> l.directory]
        Header(h, magic, version, directory_offset, directory_count) ==
            IF mode = "disk" /\ ~is_open THEN Fail("file_not_found")
            ELSE IF mode = "disk" /\ (h.fs.fail \/ Len(h.got) # HeaderSize)
            THEN Fail("read_error")
            ELSE IF mode # "disk" /\ Len(memory_data) < HeaderSize THEN Fail("invalid_format")
            ELSE IF magic # MAGIC_NUMBER THEN Fail("invalid_format")
            ELSE IF version # FORMAT_VERSION THEN Fail("invalid_format")
            ELSE IF mode = "disk"
            THEN LoadedDisk(load_entries_disk(file, h.fs, directory_offset,
                                              directory_count, EmptyDirectory))
            ELSE LoadedMemory(load_entries_memory(memory_data, directory_offset,
                                                  directory_count, EmptyDirectory))
        Read(h) == Header(h, LEValue(Slice(h.got, 0, 4)), LEValue(Slice(h.got, 4, 4)),
                          U64Value(ZeroPad(Slice(h.got, 8, 8), 8)),
                          LEValue(Slice(h.got, 16, 4)))
    IN  Read(IF mode = "disk"
             THEN fs_read(file, [pos |-> 0, fail |-> FALSE], HeaderSize)
             ELSE [fs |-> [pos |-> 0, fail |-> FALSE],
                   got |-> Slice(memory_data, 0, Min(HeaderSize, Len(memory_data)))])

\* archive::archive: [ok, archive]; ok = FALSE stands for the exception
\* thrown when load_directory fails.
archive(path, mode) ==
    LET Loaded(memory_data, l) ==
            [ok |-> l.ok,
             archive |-> [path_ |-> path, mode_ |-> mode, failed |-> l.failed,
                          memory_data_ |-> memory_data, directory_ |-> l.directory]]
        Opened(file, memory_data) ==
            Loaded(memory_data, load_directory(mode, file_exists(path), file, memory_data))
        Construct(file) == Opened(file, IF mode = "memory" THEN file ELSE <<>>)
    IN  Construct(file_bytes(path))

\* What load_directory returns to the constructor.
ConstructionError(path, mode) ==
    load_directory(mode, file_exists(path), file_bytes(path),
                   IF mode = "memory" THEN file_bytes(path) ELSE <<>>).error

\* archive::create: [ok, archive, error]; the reader is constructed in disk
\* mode and every exception becomes read_error.
archive_create(path) ==
    LET Constructed(arch) ==
            [ok |-> arch.ok, archive |-> arch.archive,
             error |-> IF arch.ok THEN "" ELSE "read_error"]
    IN  Constructed(archive(path, "disk"))

\* read_file_data: [arch, ok, value, error]; arch is the reader afterwards
\* (file_stream_ is mutable and keeps its failbit).  The vector data is
\* constructed first: a compressed_size from 2^63 on is more than
\* max_size() and the constructor throws std::length_error, which leaves
\* read_file_data and archive::open (error "length_error" stands for it).
\* In memory mode the sum is a u64: when it wraps, the check passes with
\* data_offset beyond the buffer and the memcpy reads outside
\* memory_data_ ("out_of_bounds": undefined behaviour, the caller draws
\* the outcome).
read_file_data(arch, entry) ==
    LET Got(r) ==
            IF r.fs.fail \/ Len(r.got) # entry.compressed_size
            THEN [arch |-> [arch EXCEPT !.failed = r.fs.fail], ok |-> FALSE,
                  value |-> <<>>, error |-> "read_error"]
            ELSE [arch |-> arch, ok |-> TRUE, value |-> r.got, error |-> ""]
    IN  IF entry.compressed_size < 0
        THEN [arch |-> arch, ok |-> FALSE, value |-> <<>>, error |-> "length_error"]
        ELSE IF arch.mode_ = "disk"
        THEN Got(fs_read(file_bytes(arch.path_),
                         fs_seekg([pos |-> 0, fail |-> arch.failed], entry.data_offset),
                         entry.compressed_size))
        ELSE IF u64_gt(entry.data_offset + entry.compressed_size, Len(arch.memory_data_))
        THEN [arch |-> arch, ok |-> FALSE, value |-> <<>>, error |-> "read_error"]
        ELSE IF entry.data_offset < 0
        THEN [arch |-> arch, ok |-> FALSE, value |-> <<>>, error |-> "out_of_bounds"]
        ELSE [arch |-> arch, ok |-> TRUE, error |-> "",
              value |-> Slice(arch.memory_data_, entry.data_offset, entry.compressed_size)]

archive_contains(arch, filename) == filename \in DOMAIN arch.directory_

\* archive::open from the result of read_file_data on.
archive_open_data(entry, data_result) ==
    LET Failed(after, e) ==
            [arch |-> after, ok |-> FALSE, stream |-> vfstream(<<>>), error |-> e]
        Decompressed(after, decompressed) ==
            IF ~decompressed.ok THEN Failed(after, "compression_error")
            ELSE [arch |-> after, ok |-> TRUE, stream |-> vfstream(decompressed.value),
                  error |-> ""]
    IN  IF ~data_result.ok THEN Failed(data_result.arch, data_result.error)
        ELSE IF entry.compression # none
        THEN Decompressed(data_result.arch,
                          decompress(data_result.value, entry.compression,
                                     entry.uncompressed_size))
        ELSE [arch |-> data_result.arch, ok |-> TRUE,
              stream |-> vfstream(data_result.value), error |-> ""]

\* archive::open: [arch, ok, stream, error].
archive_open(arch, filename) ==
    IF filename \notin DOMAIN arch.directory_
    THEN [arch |-> arch, ok |-> FALSE, stream |-> vfstream(<<>>),
          error |-> "entry_not_found"]
    ELSE archive_open_data(arch.directory_[filename],
                           read_file_data(arch, arch.directory_[filename]))

\* The sequences without repetition that enumerate the set S.
Orderings(S) ==
    {s \in [1..Cardinality(S) -> S] : \A i, j \in DOMAIN s : i # j => s[i] # s[j]}

\* archive::list_files: the keys of directory_ in the iteration order of the
\* unordered_map, which the library leaves open: the set of the sequences
\* the call can return.
archive_list_files(arch) == Orderings(DOMAIN arch.directory_)

(***************************************************************************)
(* vfs.hpp, vfs.cpp.  The state of one vfs object, and last: the call made *)
(* last with what it returned.  last.calls counts the calls the operation  *)
(* made on mounted archives (archive::contains and archive::open).         *)
(* opened is a history variable: the bytes each name was opened with since *)
(* caching was last switched on or the cache last cleared.                 *)
(***************************************************************************)
\* The most archives one vfs mounts.
MaxMounts == 2

Paths == DOMAIN Disk \cup {"x.pak"}

Modes == {"disk", "memory"}

Names == {name_p, name_q, name_z}

SearchOrders == {"mount_order", "reverse_mount_order"}

EmptyCache == [name \in {} |-> <<>>]

Returned(op, filename, path, ok, error, stream, calls) ==
    [op |-> op, filename |-> filename, path |-> path, ok |-> ok, error |-> error,
     stream |-> stream, calls |-> calls]

Called(op, path, archive_path, compression, ok, error) ==
    [op |-> op, path |-> path, archive_path |-> archive_path,
     compression |-> compression, ok |-> ok, error |-> error]

\* A call on the codec, a stream or a reader: its arguments, whether it
\* succeeded, the value it returned and the error it reported.
Outcome(op, args, ok, value, error) ==
    [op |-> op, args |-> args, ok |-> ok, value |-> value, error |-> error]

\* No codec, stream or reader call was made: no bytes in hand, an empty
\* stream, no reader constructed.
Untouched ==
    /\ bytes_ = <<>>
    /\ stream_ = vfstream(<<>>)
    /\ reader_ = <<>>
    /\ returned = Outcome("", <<>>, TRUE, <<>>, "")

\* A vfs and an archive_builder, both just constructed with the default
\* arguments.
Init ==
    /\ disk_ = Disk
    /\ files_ = <<>>
    /\ default_compression_ = deflate
    /\ called = Called("archive_builder", "", <<>>, deflate, TRUE, "")
    /\ archives_ = <<>>
    /\ cache_enabled_ = TRUE
    /\ search_order_ = "reverse_mount_order"
    /\ cache_ = EmptyCache
    /\ last = Returned("vfs", <<>>, "", TRUE, "", vfstream(<<>>), 0)
    /\ opened = EmptyCache
    /\ Untouched

\* The order in which open and contains visit archives_[1..n].
search_sequence(n, order) ==
    [k \in 1..n |-> IF order = "reverse_mount_order" THEN n + 1 - k ELSE k]

\* drain without the seekg to the beginning that precedes the read.
drain_read_at_end(stream) ==
    LET Drained(size, r) ==
            [data |-> ZeroPad(r.got, size), stream |-> seekg(r.s, 0, "beg")]
        Sized(s1, size) == Drained(size, read(s1, size))
        AtEnd(s1) == Sized(s1, tellg(s1))
    IN  AtEnd(seekg(stream, 0, "end"))

\* drain without the closing seekg to the beginning.
drain_left_at_end(stream) ==
    LET Drained(size, r) == [data |-> ZeroPad(r.got, size), stream |-> r.s]
        Sized(s1, size) == Drained(size, read(seekg(s1, 0, "beg"), size))
        AtEnd(s1) == Sized(s1, tellg(s1))
    IN  AtEnd(seekg(stream, 0, "end"))

\* The block run on a successful archive::open when caching is on: the
\* stream is drained into data and rewound.
drain(stream) ==
    LET Drained(size, r) ==
            [data |-> ZeroPad(r.got, size), stream |-> seekg(r.s, 0, "beg")]
        Sized(s1, size) == Drained(size, read(seekg(s1, 0, "beg"), size))
        AtEnd(s1) == Sized(s1, tellg(s1))
    IN  AtEnd(seekg(stream, 0, "end"))

\* The loop of vfs::open over the archives still to visit (their indices
\* in visiting order).
RECURSIVE search(_, _, _, _)
search(archs, indices, filename, calls) ==
    IF indices = <<>>
    THEN [archives |-> archs, ok |-> FALSE, error |-> "file_not_found",
          stream |-> vfstream(<<>>), calls |-> calls]
    ELSE LET Opened(after, result) ==
                 IF result.ok
                 THEN [archives |-> after, ok |-> TRUE, error |-> "",
                       stream |-> result.stream, calls |-> calls + 2]
                 ELSE search(after, Tail(indices), filename, calls + 2)
             Result(i, result) == Opened([archs EXCEPT ![i] = result.arch], result)
             Visit(i) ==
                 IF archive_contains(archs[i], filename)
                 THEN Result(i, archive_open(archs[i], filename))
                 ELSE search(archs, Tail(indices), filename, calls + 1)
         IN  Visit(Head(indices))

\* vfs::open without the cache lookup at its start.
vfs_open_no_lookup(archs, cache_enabled, order, cache, filename) ==
    LET Cached(f, d) ==
            [archives |-> f.archives, cache |-> (filename :> d.data) @@ cache,
             ok |-> TRUE, error |-> "", stream |-> d.stream, calls |-> f.calls]
        Searched(f) ==
            IF f.ok /\ cache_enabled
            THEN Cached(f, drain(f.stream))
            ELSE [archives |-> f.archives, cache |-> cache, ok |-> f.ok,
                  error |-> f.error, stream |-> f.stream, calls |-> f.calls]
    IN  Searched(search(archs, search_sequence(Len(archs), order), filename, 0))

\* vfs::open with the cache lookup not guarded by cache_enabled_.
vfs_open_unguarded_lookup(archs, cache_enabled, order, cache, filename) ==
    IF filename \in DOMAIN cache
    THEN [archives |-> archs, cache |-> cache, ok |-> TRUE, error |-> "",
          stream |-> vfstream(cache[filename]), calls |-> 0]
    ELSE vfs_open_no_lookup(archs, cache_enabled, order, cache, filename)

\* vfs::open: [archives, cache, ok, error, stream, calls].
vfs_open(archs, cache_enabled, order, cache, filename) ==
    IF cache_enabled /\ filename \in DOMAIN cache
    THEN [archives |-> archs, cache |-> cache, ok |-> TRUE, error |-> "",
          stream |-> vfstream(cache[filename]), calls |-> 0]
    ELSE LET Cached(f, d) ==
                 [archives |-> f.archives, cache |-> (filename :> d.data) @@ cache,
                  ok |-> TRUE, error |-> "", stream |-> d.stream, calls |-> f.calls]
             Searched(f) ==
                 IF f.ok /\ cache_enabled
                 THEN Cached(f, drain(f.stream))
                 ELSE [archives |-> f.archives, cache |-> cache, ok |-> f.ok,
                       error |-> f.error, stream |-> f.stream, calls |-> f.calls]
         IN  Searched(search(archs, search_sequence(Len(archs), order), filename, 0))

\* vfs::contains looking only at the first archive in search direction.
vfs_contains_first_only(archs, cache_enabled, order, cache, filename) ==
    \/ cache_enabled /\ filename \in DOMAIN cache
    \/ /\ Len(archs) > 0
       /\ archive_contains(archs[search_sequence(Len(archs), order)[1]], filename)

\* vfs::contains.
vfs_contains(archs, cache_enabled, order, cache, filename) ==
    \/ cache_enabled /\ filename \in DOMAIN cache
    \/ \E k \in 1..Len(archs) :
          archive_contains(archs[search_sequence(Len(archs), order)[k]], filename)

\* operator< of std::string: lexicographic on the bytes.
RECURSIVE string_less(_, _)
string_less(a, b) ==
    IF b = <<>> THEN FALSE
    ELSE IF a = <<>> THEN TRUE
    ELSE IF Head(a) # Head(b) THEN Head(a) < Head(b)
    ELSE string_less(Tail(a), Tail(b))

\* std::ranges::sort, as an insertion sort.
RECURSIVE sort_insert(_, _)
sort_insert(x, sorted) ==
    IF sorted = <<>> THEN <<x>>
    ELSE IF string_less(Head(sorted), x)
    THEN <<Head(sorted)>> \o sort_insert(x, Tail(sorted))
    ELSE <<x>> \o sorted

RECURSIVE sort(_)
sort(all_files) ==
    IF all_files = <<>> THEN <<>>
    ELSE sort_insert(Head(all_files), sort(Tail(all_files)))

\* std::ranges::unique and the erase of its tail: of each run of equal
\* neighbours the first stays.
RECURSIVE unique(_)
unique(all_files) ==
    IF Len(all_files) < 2 THEN all_files
    ELSE IF all_files[1] = all_files[2] THEN unique(Tail(all_files))
    ELSE <<all_files[1]>> \o unique(Tail(all_files))

\* all_files after the loop over archives_: the listings appended in mount
\* order, one value per choice of the listings' orders.
RECURSIVE all_files_of(_)
all_files_of(archs) ==
    IF archs = <<>> THEN {<<>>}
    ELSE {front \o arch_files :
              front \in all_files_of(SubSeq(archs, 1, Len(archs) - 1)),
              arch_files \in archive_list_files(archs[Len(archs)])}

\* vfs::list_files without the removal of duplicates.
vfs_list_files_with_duplicates(archs) == {sort(all_files) : all_files \in all_files_of(archs)}

\* vfs::list_files: the set of the sequences the call can return.
vfs_list_files(archs) == {unique(sort(all_files)) : all_files \in all_files_of(archs)}

cache_size(cache) == Cardinality(DOMAIN cache)

\* vfs::mount putting the new archive in front of archives_.
vfs_mount_in_front(archs, path, mode) ==
    LET Constructed(arch) ==
            IF arch.ok
            THEN [archives |-> <<arch.archive>> \o archs, ok |-> TRUE, error |-> ""]
            ELSE [archives |-> archs, ok |-> FALSE, error |-> "archive_error"]
    IN  Constructed(archive(path, mode))

\* vfs::mount: [archives, ok, error].
vfs_mount(archs, path, mode) ==
    LET Constructed(arch) ==
            IF arch.ok
            THEN [archives |-> Append(archs, arch.archive), ok |-> TRUE, error |-> ""]
            ELSE [archives |-> archs, ok |-> FALSE, error |-> "archive_error"]
    IN  Constructed(archive(path, mode))

mount(path, mode) ==
    /\ Len(archives_) < MaxMounts
    /\ \E r \in {vfs_mount(archives_, path, mode)} :
          /\ archives_' = r.archives
          /\ last' = Returned("mount", <<>>, path, r.ok, r.error, vfstream(<<>>), 0)
    /\ UNCHANGED <<cache_enabled_, search_order_, cache_, opened>>
    /\ UNCHANGED <<disk_, builder_vars, unit_vars>>

open(filename) ==
    /\ \E r \in {vfs_open(archives_, cache_enabled_, search_order_, cache_, filename)} :
          /\ archives_' = r.archives
          /\ cache_' = r.cache
          /\ last' = Returned("open", filename, "", r.ok, r.error, r.stream, r.calls)
          /\ opened' = IF r.ok /\ cache_enabled_ /\ filename \notin DOMAIN opened
                       THEN (filename :> r.stream.data_) @@ opened
                       ELSE opened
    /\ UNCHANGED <<cache_enabled_, search_order_>>
    /\ UNCHANGED <<disk_, builder_vars, unit_vars>>

\* enable_cache that drops the cached data when caching is switched off.
enable_cache_clearing(enable) ==
    /\ cache_enabled_' = enable
    /\ cache_' = IF enable THEN cache_ ELSE EmptyCache
    /\ last' = Returned("enable_cache", <<>>, "", TRUE, "", vfstream(<<>>), 0)
    /\ opened' = IF enable THEN opened ELSE EmptyCache
    /\ UNCHANGED <<archives_, search_order_>>
    /\ UNCHANGED <<disk_, builder_vars, unit_vars>>

enable_cache(enable) ==
    /\ cache_enabled_' = enable
    /\ last' = Returned("enable_cache", <<>>, "", TRUE, "", vfstream(<<>>), 0)
    /\ opened' = IF enable THEN opened ELSE EmptyCache
    /\ UNCHANGED <<archives_, search_order_, cache_>>
    /\ UNCHANGED <<disk_, builder_vars, unit_vars>>

clear_cache ==
    /\ cache_' = EmptyCache
    /\ last' = Returned("clear_cache", <<>>, "", TRUE, "", vfstream(<<>>), 0)
    /\ opened' = EmptyCache
    /\ UNCHANGED <<archives_, cache_enabled_, search_order_>>
    /\ UNCHANGED <<disk_, builder_vars, unit_vars>>

set_search_order(order) ==
    /\ search_order_' = order
    /\ last' = Returned("set_search_order", <<>>, "", TRUE, "", vfstream(<<>>), 0)
    /\ UNCHANGED <<archives_, cache_enabled_, cache_, opened>>
    /\ UNCHANGED <<disk_, builder_vars, unit_vars>>

Next ==
    \/ \E path \in Paths, mode \in Modes : mount(path, mode)
    \/ \E filename \in Names : open(filename)
    \/ \E enable \in BOOLEAN : enable_cache(enable)
    \/ clear_cache
    \/ \E order \in SearchOrders : set_search_order(order)

Spec == Init /\ [][Next]_vars

(***************************************************************************)
(* archive_builder.hpp, archive_builder.cpp: one archive_builder, the      *)
(* output file it builds and the sources it reads.                         *)
(***************************************************************************)
\* The most entries one builder holds.
MaxFiles == 2

Methods == {none, deflate, zstd}

\* The methods a builder is given as its default.
DefaultMethods == {none, deflate}

SourcePaths == {"a/p", "missing", "dir"}

DirectoryPaths == {"dir", "nodir"}

ArchivePaths == {<<>>, name_p}

\* 100 is the letter d.
ArchivePrefixes == {<<>>, <<100>>}

OutputPaths == {"out.pak", "nodir/out.pak"}

\* std::ofstream output(output_path): the file is created or emptied; in a
\* directory that does not exist it cannot be.
output_opens(output_path) == output_path # "nodir/out.pak"

\* The builder constructed with any default method, the vfs untouched.
BuilderInit ==
    /\ disk_ = Disk
    /\ files_ = <<>>
    /\ default_compression_ \in DefaultMethods
    /\ called = Called("archive_builder", "", <<>>, default_compression_, TRUE, "")
    /\ archives_ = <<>>
    /\ cache_enabled_ = TRUE
    /\ search_order_ = "reverse_mount_order"
    /\ cache_ = EmptyCache
    /\ last = Returned("vfs", <<>>, "", TRUE, "", vfstream(<<>>), 0)
    /\ opened = EmptyCache
    /\ Untouched

\* add_file with the method taken as given.
builder_add_file_as_given(files, default_compression, source_path, archive_path, compression) ==
    Append(files, File(source_path, archive_path, compression))

\* archive_builder::add_file: files_ afterwards.
builder_add_file(files, default_compression, source_path, archive_path, compression) ==
    Append(files, File(source_path, archive_path,
                       IF compression = none THEN default_compression ELSE compression))

\* std::replace(first, last, old_value, new_value).
replace(string, old_value, new_value) ==
    [i \in 1..Len(string) |-> IF string[i] = old_value THEN new_value ELSE string[i]]

\* The loop of add_directory over the regular files the walk finds.
RECURSIVE add_entries(_, _, _, _, _)
add_entries(files, default_compression, entries, archive_prefix, compression) ==
    IF entries = <<>> THEN files
    ELSE add_entries(
            builder_add_file(
                files, default_compression, Head(entries).path,
                replace((IF archive_prefix # <<>> /\ archive_prefix[Len(archive_prefix)] # 47
                         THEN archive_prefix \o <<47>>
                         ELSE archive_prefix) \o Head(entries).relative_path,
                        92, 47),
                compression),
            default_compression, Tail(entries), archive_prefix, compression)

\* archive_builder::add_directory: files_ afterwards.
builder_add_directory(files, default_compression, directory_path, archive_prefix, compression) ==
    IF directory_path \notin DOMAIN SourceDirs THEN files
    ELSE add_entries(files, default_compression, SourceDirs[directory_path], archive_prefix,
                     IF compression = none THEN default_compression ELSE compression)

add_file(source_path, archive_path, compression) ==
    /\ Len(files_) < MaxFiles
    /\ files_' = builder_add_file(files_, default_compression_, source_path, archive_path,
                                  compression)
    /\ called' = Called("add_file", source_path, archive_path, compression, TRUE, "")
    /\ UNCHANGED <<disk_, default_compression_, vfs_vars, unit_vars>>

add_directory(directory_path, archive_prefix, compression) ==
    /\ Len(files_) < MaxFiles
    /\ files_' = builder_add_directory(files_, default_compression_, directory_path,
                                       archive_prefix, compression)
    /\ called' = Called("add_directory", directory_path, archive_prefix, compression, TRUE, "")
    /\ UNCHANGED <<disk_, default_compression_, vfs_vars, unit_vars>>

set_default_compression(compression) ==
    /\ default_compression_' = compression
    /\ called' = Called("set_default_compression", "", <<>>, compression, TRUE, "")
    /\ UNCHANGED <<disk_, files_, vfs_vars, unit_vars>>

\* archive_builder::build(output_path): the file at output_path is created
\* or truncated and holds what build wrote, also when build fails.  With no
\* output file opened build returns write_error and nothing is written.
build_output(output_path) ==
    /\ \E r \in {IF output_opens(output_path) THEN build(files_)
                 ELSE [ok |-> FALSE, output |-> <<>>, error |-> "write_error"]} :
          /\ disk_' = IF output_opens(output_path)
                      THEN (output_path :> r.output) @@ disk_
                      ELSE disk_
          /\ called' = Called("build", output_path, <<>>, default_compression_, r.ok, r.error)
    /\ UNCHANGED <<files_, default_compression_, vfs_vars, unit_vars>>

BuilderNext ==
    \/ \E source_path \in SourcePaths, archive_path \in ArchivePaths, compression \in Methods :
          add_file(source_path, archive_path, compression)
    \/ \E directory_path \in DirectoryPaths, archive_prefix \in ArchivePrefixes,
          compression \in Methods :
          add_directory(directory_path, archive_prefix, compression)
    \/ \E compression \in DefaultMethods : set_default_compression(compression)
    \/ \E output_path \in OutputPaths : build_output(output_path)

BuilderSpec == BuilderInit /\ [][BuilderNext]_vars

(***************************************************************************)
(* compression.hpp, compression.cpp: the codec called on its own.  bytes_  *)
(* is any byte vector a caller holds; it is compressed, and it or any      *)
(* leading part of what compress returned last is decompressed.            *)
(***************************************************************************)
\* The longest byte vector handed to the codec.
MaxBytes == 3

\* 0 and 1 are also the token tags of the modelled deflate stream.
ByteValues == {0, 1, 7}

ByteVectors(n) == UNION {[1..k -> ByteValues] : k \in 0..n}

\* A vfs and an archive_builder just constructed.
Constructed ==
    /\ files_ = <<>>
    /\ default_compression_ = deflate
    /\ called = Called("archive_builder", "", <<>>, deflate, TRUE, "")
    /\ archives_ = <<>>
    /\ cache_enabled_ = TRUE
    /\ search_order_ = "reverse_mount_order"
    /\ cache_ = EmptyCache
    /\ last = Returned("vfs", <<>>, "", TRUE, "", vfstream(<<>>), 0)
    /\ opened = EmptyCache

CodecInit ==
    /\ disk_ = Disk
    /\ Constructed
    /\ bytes_ \in ByteVectors(MaxBytes)
    /\ stream_ = vfstream(<<>>)
    /\ reader_ = <<>>
    /\ returned = Outcome("", <<>>, TRUE, <<>>, "")

\* The leading parts of b, b included.
Prefixes(b) == {SubSeq(b, 1, k) : k \in 0..Len(b)}

\* What a caller passes to decompress: the bytes in hand, or what compress
\* returned last, whole or cut short.
CompressedInputs ==
    {bytes_} \cup (IF returned.op = "compress" /\ returned.ok
                   THEN Prefixes(returned.value) ELSE {})

call_compress(method) ==
    /\ \E r \in {compress(bytes_, method)} :
          returned' = Outcome("compress", <<bytes_, method>>, r.ok, r.value, r.error)
    /\ UNCHANGED <<disk_, vfs_vars, builder_vars, bytes_, stream_, reader_>>

call_decompress(compressed_data, method, uncompressed_size) ==
    /\ compressed_data \in CompressedInputs
    /\ \E r \in {decompress(compressed_data, method, uncompressed_size)} :
          returned' = Outcome("decompress", <<compressed_data, method, uncompressed_size>>,
                              r.ok, r.value, r.error)
    /\ UNCHANGED <<disk_, vfs_vars, builder_vars, bytes_, stream_, reader_>>

CodecNext ==
    \/ \E method \in Methods : call_compress(method)
    \/ \E compressed_data \in CompressedInputs, method \in Methods,
          uncompressed_size \in 0..(MaxBytes + 1) :
          call_decompress(compressed_data, method, uncompressed_size)

CodecSpec == CodecInit /\ [][CodecNext]_vars

(***************************************************************************)
(* vfstream.hpp, vfstream.cpp: one vfstream over any data, read and sought *)
(* through the istream (read, seekg, clear) and through its buffer (sgetn  *)
(* and pubseekoff, the public entries of xsgetn and seekoff).              *)
(***************************************************************************)
\* The most bytes the stream is over.
MaxData == 3

\* The data of n bytes: the byte at offset i is 10 + i.
StreamData(n) == [i \in 1..n |-> 9 + i]

SeekDirs == {"beg", "cur", "end"}

StreamInit ==
    /\ disk_ = Disk
    /\ Constructed
    /\ bytes_ = <<>>
    /\ stream_ \in {vfstream(StreamData(n)) : n \in 0..MaxData}
    /\ reader_ = <<>>
    /\ returned = Outcome("", <<>>, TRUE, <<>>, "")

call_sgetn(count) ==
    /\ \E r \in {xsgetn(stream_, count)} :
          /\ stream_' = r.s
          /\ returned' = Outcome("sgetn", <<count>>, TRUE, r.got, "")
    /\ UNCHANGED <<disk_, vfs_vars, builder_vars, bytes_, reader_>>

call_pubseekoff(off, way) ==
    /\ \E r \in {seekoff(stream_, off, way)} :
          /\ stream_' = r.s
          /\ returned' = Outcome("pubseekoff", <<off, way>>, r.pos # -1, r.pos, "")
    /\ UNCHANGED <<disk_, vfs_vars, builder_vars, bytes_, reader_>>

\* read(buf, count): value is what gcount() bytes of buf hold, ok is !fail().
call_read(count) ==
    /\ \E r \in {read(stream_, count)} :
          /\ stream_' = r.s
          /\ returned' = Outcome("read", <<count>>, ~r.s.failbit, r.got, "")
    /\ UNCHANGED <<disk_, vfs_vars, builder_vars, bytes_, reader_>>

\* seekg(off, way): value is what tellg() returns afterwards.
call_seekg(off, way) ==
    /\ \E s \in {seekg(stream_, off, way)} :
          /\ stream_' = s
          /\ returned' = Outcome("seekg", <<off, way>>, ~s.failbit, tellg(s), "")
    /\ UNCHANGED <<disk_, vfs_vars, builder_vars, bytes_, reader_>>

call_clear ==
    /\ stream_' = clear(stream_)
    /\ returned' = Outcome("clear", <<>>, TRUE, <<>>, "")
    /\ UNCHANGED <<disk_, vfs_vars, builder_vars, bytes_, reader_>>

StreamNext ==
    \/ \E count \in 0..(MaxData + 1) : call_sgetn(count)
    \/ \E off \in (0 - MaxData - 1)..(MaxData + 1), way \in SeekDirs : call_pubseekoff(off, way)
    \/ \E count \in 0..(MaxData + 1) : call_read(count)
    \/ \E off \in (0 - MaxData - 1)..(MaxData + 1), way \in SeekDirs : call_seekg(off, way)
    \/ call_clear

StreamSpec == StreamInit /\ [][StreamNext]_vars

(***************************************************************************)
(* archive.hpp, archive.cpp: one archive object that a caller constructs   *)
(* itself, on the containers of the vfs above and on further ones, and the *)
(* calls made on it.                                                       *)
(***************************************************************************)
\* A name of 4096 bytes (the letter a), the shortest that load_directory
\* takes as malformed.
LongName == [i \in 1..MaxNameLen |-> 97]

\* What each further container was built from.
ReaderSources ==
    [path \in {"e.pak", "g.pak", "k.pak", "o.pak", "u.pak", "w.pak", "y.pak"} |->
        CASE path = "e.pak" -> <<File("b/p", <<>>, none), File("b/q", name_q, none)>>
          [] path = "g.pak" -> <<File("b/p", LongName, none), File("b/q", name_q, none)>>
          [] path = "u.pak" -> <<File("a/p", name_p, deflate), File("b/p", name_p, none)>>
          [] path = "y.pak" -> <<File("a/p", name_p, deflate)>>
          [] OTHER -> <<File("b/p", name_p, none), File("b/q", name_q, none)>>]

\* The header's directory_offset rewritten to the u64 v.
DirectoryOffsetChanged(img, v) == Patch(img, 8, LEBytes(v, 8))

\* The first directory entry's data_offset rewritten to the u64 v.
FirstDataOffsetChanged(img, v) ==
    Patch(img, LEValue(Slice(img, 8, 8)) + 4
               + LEValue(Slice(img, LEValue(Slice(img, 8, 8)), 4)),
          LEBytes(v, 8))

\* The first directory entry's compressed_size rewritten to the u64 v.
FirstCompressedSizeChanged(img, v) ==
    Patch(img, LEValue(Slice(img, 8, 8)) + 4
               + LEValue(Slice(img, LEValue(Slice(img, 8, 8)), 4)) + 8,
          LEBytes(v, 8))

\* e.pak: a first entry with an empty name (filename_length 0), then q.
\* g.pak: a first entry with a name of 4096 bytes, then q.
\* u.pak: the name p twice, with different data and methods.
\* k.pak: the compressed_size of p is 2^64 - 1.
\* o.pak: the directory_offset is 2^64 - 2.
\* w.pak: the data_offset of p is 2^64 - 1 and its compressed_size 2: the
\*        u64 sum is 1.
\* y.pak: the compressed_size of the deflated p is two less than what was
\*        written: the range ends inside the stream, before the end marker.
ReaderDisk ==
    Disk @@
    [path \in DOMAIN ReaderSources |->
        CASE path = "k.pak"
             -> FirstCompressedSizeChanged(build(ReaderSources[path]).output, 0 - 1)
          [] path = "o.pak"
             -> DirectoryOffsetChanged(build(ReaderSources[path]).output, 0 - 2)
          [] path = "w.pak"
             -> FirstCompressedSizeChanged(
                    FirstDataOffsetChanged(build(ReaderSources[path]).output, 0 - 1), 2)
          [] path = "y.pak"
             -> FirstCompressedSizeChanged(
                    build(ReaderSources[path]).output,
                    Len(compress(source_bytes("a/p"), deflate).value) - 2)
          [] OTHER -> build(ReaderSources[path]).output]

ReaderPaths == DOMAIN ReaderDisk \cup {"x.pak"}

ReaderInit ==
    /\ disk_ = ReaderDisk
    /\ Constructed
    /\ Untouched

\* What a read outside memory_data_ can deliver: n bytes of any content.
UndefinedBytes(n) == [1..n -> {0, 255}]

\* The outcomes of constructing an archive: the one the code determines,
\* or, after a read outside memory_data_, the termination of the program,
\* a failure of load_directory or its success with what it inserted up to
\* there.
construct_outcomes(path, mode) ==
    LET Outcomes(r, e) ==
            IF e # "out_of_bounds"
            THEN {[ok |-> r.ok, archive |-> r.archive, error |-> e]}
            ELSE {[ok |-> FALSE, archive |-> r.archive, error |-> "terminated"],
                  [ok |-> FALSE, archive |-> r.archive, error |-> "read_error"],
                  [ok |-> TRUE, archive |-> r.archive, error |-> ""]}
    IN  Outcomes(archive(path, mode), ConstructionError(path, mode))

\* The outcomes of archive::open: the one the code determines, or, after a
\* read outside memory_data_, the termination of the program or the rest
\* of open run on any bytes of the length asked for.
open_outcomes(arch, filename) ==
    LET Outcomes(r) ==
            IF r.error # "out_of_bounds" THEN {r}
            ELSE {[arch |-> arch, ok |-> FALSE, stream |-> vfstream(<<>>),
                   error |-> "terminated"]}
                 \cup {archive_open_data(arch.directory_[filename],
                                         [arch |-> arch, ok |-> TRUE, value |-> data,
                                          error |-> ""]) :
                           data \in UndefinedBytes(
                                        arch.directory_[filename].compressed_size)}
    IN  Outcomes(archive_open(arch, filename))

\* archive a(path, mode): ok = FALSE is the exception leaving the
\* constructor (error is what load_directory returned) and no object.
construct(path, mode) ==
    /\ \E r \in construct_outcomes(path, mode) :
          /\ reader_' = IF r.ok THEN <<r.archive>> ELSE <<>>
          /\ returned' = Outcome("archive", <<path, mode>>, r.ok,
                                 r.archive.directory_, r.error)
    /\ UNCHANGED <<disk_, vfs_vars, builder_vars, bytes_, stream_>>

create(path) ==
    /\ \E r \in {archive_create(path)} :
          /\ reader_' = IF r.ok THEN <<r.archive>> ELSE <<>>
          /\ returned' = Outcome("create", <<path, "disk">>, r.ok,
                                 r.archive.directory_, r.error)
    /\ UNCHANGED <<disk_, vfs_vars, builder_vars, bytes_, stream_>>

\* a.open(filename): value is the data of the stream returned.
reader_open(filename) ==
    /\ reader_ # <<>>
    /\ \E r \in open_outcomes(reader_[1], filename) :
          /\ reader_' = IF r.error = "terminated" THEN <<>> ELSE <<r.arch>>
          /\ returned' = Outcome("open", <<filename>>, r.ok, r.stream.data_, r.error)
    /\ UNCHANGED <<disk_, vfs_vars, builder_vars, bytes_, stream_>>

reader_contains(filename) ==
    /\ reader_ # <<>>
    /\ returned' = Outcome("contains", <<filename>>, TRUE,
                           archive_contains(reader_[1], filename), "")
    /\ UNCHANGED <<disk_, vfs_vars, builder_vars, bytes_, stream_, reader_>>

reader_list_files ==
    /\ reader_ # <<>>
    /\ \E files \in archive_list_files(reader_[1]) :
          returned' = Outcome("list_files", <<>>, TRUE, files, "")
    /\ UNCHANGED <<disk_, vfs_vars, builder_vars, bytes_, stream_, reader_>>

ReaderNext ==
    \/ \E path \in ReaderPaths, mode \in Modes : construct(path, mode)
    \/ \E path \in ReaderPaths : create(path)
    \/ \E filename \in Names : reader_open(filename)
    \/ \E filename \in Names : reader_contains(filename)
    \/ reader_list_files

ReaderSpec == ReaderInit /\ [][ReaderNext]_vars

(***************************************************************************)
(* What the claims speak of.                                               *)
(***************************************************************************)
SetMax(S) == CHOOSE x \in S : \A y \in S : y <= x

SetMin(S) == CHOOSE x \in S : \A y \in S : x <= y

FirstInOrder(S) ==
    IF S = {} THEN 0
    ELSE IF search_order_ = "reverse_mount_order" THEN SetMax(S) ELSE SetMin(S)

\* The mounted archives whose directory contains the name.
Containing(filename) ==
    {i \in 1..Len(archives_) : archive_contains(archives_[i], filename)}

\* The first archive in search direction that contains the name (0: none).
Authoritative(filename) == FirstInOrder(Containing(filename))

\* The first archive in search direction that contains the name and whose
\* open delivers it now (0: none).
Serving(filename) ==
    FirstInOrder({i \in Containing(filename) : archive_open(archives_[i], filename).ok})

\* The source bytes the container at path was built with for the name.
SourceData(path, filename) ==
    source_bytes(Sources[path][CHOOSE k \in 1..Len(Sources[path]) :
                                   Sources[path][k].archive_path = filename].source_path)

\* The entry of the name in the container file of arch is intact: its data
\* range lies inside the file and decodes with its method.
Intact(arch, filename) ==
    /\ filename \in DOMAIN arch.directory_
    /\ arch.directory_[filename].data_offset + arch.directory_[filename].compressed_size
           <= Len(file_bytes(arch.path_))
    /\ decompress(Slice(file_bytes(arch.path_), arch.directory_[filename].data_offset,
                        arch.directory_[filename].compressed_size),
                  arch.directory_[filename].compression,
                  arch.directory_[filename].uncompressed_size).ok

ServedFromCache(filename) == cache_enabled_ /\ filename \in DOMAIN cache_

\* The step is a call open(filename).
IsOpen(filename) == last'.op = "open" /\ last'.filename = filename

(***************************************************************************)
(* C1.  vfs.open(p) does not fall through on a Reader failure: when the    *)
(* first Reader in search direction that contains p fails to open p,       *)
(* open(p) returns an error (and so no content of another Reader).         *)
(***************************************************************************)
C1_NoFallThrough ==
    [][\A n \in Names :
          (/\ IsOpen(n)
           /\ ~ServedFromCache(n)
           /\ Authoritative(n) # 0
           /\ ~archive_open(archives_[Authoritative(n)], n).ok)
          => ~last'.ok]_vars

(***************************************************************************)
(* C2.  Cache invariant as claimed: every cache entry for p holds the      *)
(* bytes a fresh (uncached) open(p) would produce in the same state.       *)
(***************************************************************************)
C2_CacheIsFreshOpen ==
    \A n \in DOMAIN cache_ :
        /\ vfs_open(archives_, FALSE, search_order_, cache_, n).ok
        /\ vfs_open(archives_, FALSE, search_order_, cache_, n).stream.data_ = cache_[n]

(***************************************************************************)
(* C2 as amended.  Every cache entry for p holds exactly the source bytes  *)
(* of p's entry in one of the mounted Readers that contain p, with that    *)
(* entry intact: the Reader that served the open which stored it, not      *)
(* necessarily the one a fresh open would select now.                      *)
(***************************************************************************)
C2_CacheHoldsMountedEntry ==
    \A n \in DOMAIN cache_ :
        \E i \in Containing(n) :
            /\ Intact(archives_[i], n)
            /\ cache_[n] = SourceData(archives_[i].path_, n)

\* A cached p differs from what the authoritative Reader holds for p.
C2_Witness ==
    /\ name_p \in DOMAIN cache_
    /\ Authoritative(name_p) # 0
    /\ Intact(archives_[Authoritative(name_p)], name_p)
    /\ cache_[name_p] # SourceData(archives_[Authoritative(name_p)].path_, name_p)

(***************************************************************************)
(* C3.  Overlay precedence: when p is not in the cache and several mounted *)
(* archives contain p, open(p) yields the bytes of p from the last-mounted *)
(* archive containing p under reverse_mount_order and from the first-      *)
(* mounted one under mount_order.  Stated for an archive whose entry for p *)
(* is intact.                                                              *)
(***************************************************************************)
C3_Precedence ==
    [][\A n \in Names :
          (/\ IsOpen(n)
           /\ n \notin DOMAIN cache_
           /\ Cardinality(Containing(n)) >= 2
           /\ Intact(archives_[Authoritative(n)], n))
          => /\ last'.ok
             /\ last'.stream.data_ = SourceData(archives_[Authoritative(n)].path_, n)]_vars

(***************************************************************************)
(* C4.  Cache hit: with caching enabled, once open(p) has succeeded, every *)
(* later open(p), until clear_cache or until caching is disabled, returns  *)
(* the same bytes from the cache and calls no mounted Reader.              *)
(***************************************************************************)
C4_CacheHit ==
    [][\A n \in Names :
          (IsOpen(n) /\ cache_enabled_ /\ n \in DOMAIN opened)
          => /\ last'.ok
             /\ last'.stream.data_ = opened[n]
             /\ last'.stream.gpos = 0
             /\ last'.calls = 0
             /\ archives_' = archives_
             /\ cache_' = cache_]_vars

\* An open served from the cache in a state where the Readers no longer
\* deliver the name.
C4_Witness ==
    /\ last.op = "open" /\ last.ok /\ last.calls = 0
    /\ cache_enabled_
    /\ last.filename \in DOMAIN opened
    /\ last.stream.data_ = opened[last.filename]
    /\ Containing(last.filename) # {}
    /\ Serving(last.filename) = 0

(***************************************************************************)
(* C5.  Cache population: a successful open(p) with caching enabled on a   *)
(* path not yet cached raises cache_size() by exactly one, stores under p  *)
(* the complete bytes of the entry that was opened, and hands out a stream *)
(* positioned at offset 0.                                                 *)
(***************************************************************************)
C5_CachePopulation ==
    [][\A n \in Names :
          (IsOpen(n) /\ last'.ok /\ cache_enabled_ /\ n \notin DOMAIN cache_)
          => /\ cache_size(cache_') = cache_size(cache_) + 1
             /\ DOMAIN cache_' = DOMAIN cache_ \cup {n}
             /\ \A m \in DOMAIN cache_ : cache_'[m] = cache_[m]
             /\ Serving(n) # 0
             /\ cache_'[n] = SourceData(archives_[Serving(n)].path_, n)
             /\ last'.stream.data_ = cache_'[n]
             /\ last'.stream.gpos = 0
             /\ ~last'.stream.failbit /\ ~last'.stream.eofbit]_vars

\* Right after an open that went to the Readers and stored a two-byte entry.
C5_Witness ==
    /\ last.op = "open" /\ last.ok /\ last.calls > 0
    /\ cache_enabled_
    /\ last.filename \in DOMAIN cache_
    /\ cache_[last.filename] = last.stream.data_
    /\ Len(last.stream.data_) = 2
    /\ last.stream.gpos = 0

(***************************************************************************)
(* C6.  clear_cache() brings cache_size() to 0 and changes neither the     *)
(* mounted Readers nor the configuration; the open(p) that follows, for a  *)
(* path contained in a mounted archive, succeeds through the Readers and,  *)
(* with caching enabled, repopulates the cache.  Stated for a path whose   *)
(* entry is intact in every mounted archive containing it.                 *)
(***************************************************************************)
C6_ClearThenOpen ==
    [][/\ last'.op = "clear_cache"
          => /\ cache_size(cache_') = 0
             /\ archives_' = archives_
             /\ cache_enabled_' = cache_enabled_
             /\ search_order_' = search_order_
       /\ \A n \in Names :
             (/\ last.op = "clear_cache"
              /\ IsOpen(n)
              /\ Containing(n) # {}
              /\ \A i \in Containing(n) : Intact(archives_[i], n))
             => /\ last'.ok
                /\ last'.calls > 0
                /\ cache_enabled_ => n \in DOMAIN cache_']_vars

(***************************************************************************)
(* C7.  While caching is disabled, open neither reads nor writes the       *)
(* cache: the cache is unchanged by the open, and open(p) is resolved      *)
(* through the mounted Readers even when the cache holds p.                *)
(***************************************************************************)
C7_DisabledCacheUntouched ==
    [][\A n \in Names :
          (IsOpen(n) /\ ~cache_enabled_)
          => /\ cache_' = cache_
             /\ Len(archives_) > 0 => last'.calls > 0
             /\ last'.ok = (Serving(n) # 0)
             /\ Serving(n) # 0
                => last'.stream.data_ = SourceData(archives_[Serving(n)].path_, n)]_vars

\* An open with caching disabled that returned other bytes than the cache
\* holds for the name.
C7_Witness ==
    /\ last.op = "open" /\ last.ok
    /\ ~cache_enabled_
    /\ last.filename \in DOMAIN cache_
    /\ last.stream.data_ # cache_[last.filename]

(***************************************************************************)
(* C8.  Opening an entry that is present in its authoritative Reader but   *)
(* corrupt returns an error and leaves the cache unchanged.                *)
(***************************************************************************)
C8_CorruptEntryError ==
    [][\A n \in Names :
          (/\ IsOpen(n)
           /\ ~ServedFromCache(n)
           /\ Authoritative(n) # 0
           /\ ~Intact(archives_[Authoritative(n)], n))
          => /\ ~last'.ok
             /\ cache_' = cache_]_vars

(***************************************************************************)
(* C9.  open(p) returns file_not_found exactly when p is not served from   *)
(* the cache and no mounted Reader contains p; archive::open of an absent  *)
(* name returns entry_not_found.                                           *)
(***************************************************************************)
C9_FileNotFoundExact ==
    [][/\ \A n \in Names :
             IsOpen(n)
             => ((~last'.ok /\ last'.error = "file_not_found")
                 <=> (~ServedFromCache(n) /\ Containing(n) = {}))
       /\ \A i \in 1..Len(archives_) : \A n \in Names :
             ~archive_contains(archives_[i], n)
             => archive_open(archives_[i], n).error = "entry_not_found"]_vars

(***************************************************************************)
(* C10.  vfs.contains(p) is true exactly when some mounted Reader's        *)
(* directory contains p, whatever the search order, the cache_enabled flag *)
(* and the cache contents are; every cached path is contained in a mounted *)
(* Reader.                                                                 *)
(***************************************************************************)
C10_ContainsOrderIndependent ==
    /\ \A n \in Names : \A order \in SearchOrders :
          vfs_contains(archives_, cache_enabled_, order, cache_, n) <=> Containing(n) # {}
    /\ DOMAIN cache_ \subseteq UNION {DOMAIN archives_[i].directory_ : i \in 1..Len(archives_)}

\* Two archives, q only in the first-mounted one, p cached, caching on.
C10_Witness ==
    /\ Len(archives_) = 2
    /\ Containing(name_q) = {1}
    /\ cache_enabled_
    /\ name_p \in DOMAIN cache_
    /\ vfs_contains(archives_, cache_enabled_, search_order_, cache_, name_q)
    /\ ~vfs_contains(archives_, cache_enabled_, search_order_, cache_, name_z)

(***************************************************************************)
(* C11.  vfs.list_files() returns the union of the listings of all mounted *)
(* Readers as a strictly ascending sequence: every name contained in any   *)
(* mount appears exactly once and no other name appears.  The result is a  *)
(* function of the mounted Readers alone: it is the same for every order   *)
(* in which the Readers list their names, and so for every search order    *)
(* and cache state.                                                        *)
(***************************************************************************)
C11_ListFilesSortedUnion ==
    /\ Cardinality(vfs_list_files(archives_)) = 1
    /\ \A all_files \in vfs_list_files(archives_) :
          /\ \A i \in 1..(Len(all_files) - 1) : string_less(all_files[i], all_files[i + 1])
          /\ {all_files[i] : i \in 1..Len(all_files)}
                 = UNION {DOMAIN archives_[i].directory_ : i \in 1..Len(archives_)}

\* Two mounts that both contain p, q in one of them only, a cached name and
\* the search order changed from its default.
C11_Witness ==
    /\ Len(archives_) = 2
    /\ Containing(name_p) = {1, 2}
    /\ Cardinality(Containing(name_q)) = 1
    /\ search_order_ = "mount_order"
    /\ cache_ # EmptyCache
    /\ vfs_list_files(archives_) = {<<name_p, name_q>>}

(***************************************************************************)
(* C12.  mount is append-only and atomic: a successful mount appends       *)
(* exactly one Reader (on the path and in the mode asked for) at the end   *)
(* of the mount list and leaves all earlier Readers where they were; a     *)
(* mount whose Reader construction fails returns archive_error and leaves  *)
(* the mount list, the cache and the configuration unchanged; no operation *)
(* removes or reorders mounted Readers (a Reader being its path, mode,     *)
(* memory image and directory).                                            *)
(***************************************************************************)
C12_MountAppendOnly ==
    [][/\ (last'.op = "mount" /\ last'.ok)
          => /\ Len(archives_') = Len(archives_) + 1
             /\ SubSeq(archives_', 1, Len(archives_)) = archives_
             /\ archives_'[Len(archives_')].path_ = last'.path
             /\ archive(last'.path, archives_'[Len(archives_')].mode_).ok
       /\ (last'.op = "mount" /\ ~last'.ok)
          => /\ last'.error = "archive_error"
             /\ \E mode \in Modes : ~archive(last'.path, mode).ok
             /\ archives_' = archives_
             /\ cache_' = cache_
             /\ cache_enabled_' = cache_enabled_
             /\ search_order_' = search_order_
       /\ Len(archives_') >= Len(archives_)
       /\ \A i \in 1..Len(archives_) :
             /\ archives_'[i].path_ = archives_[i].path_
             /\ archives_'[i].mode_ = archives_[i].mode_
             /\ archives_'[i].memory_data_ = archives_[i].memory_data_
             /\ archives_'[i].directory_ = archives_[i].directory_]_vars

\* A failed mount on a vfs that holds a mounted Reader and a cached name.
C12_Witness ==
    /\ last.op = "mount" /\ ~last.ok /\ last.error = "archive_error"
    /\ Len(archives_) = 1
    /\ cache_ # EmptyCache

(***************************************************************************)
(* A container file read back field by field, as the format lays it out.   *)
(***************************************************************************)
\* The last builder call was a build that succeeded: the file at
\* called.path is the container built from files_.
Built == called.op = "build" /\ called.ok

BuiltImage == file_bytes(called.path)

HeaderOf(img) ==
    [magic |-> LEValue(Slice(img, 0, 4)), version |-> LEValue(Slice(img, 4, 4)),
     directory_offset |-> U64Value(Slice(img, 8, 8)),
     directory_count |-> LEValue(Slice(img, 16, 4))]

\* The directory entries of img from offset pos on, in file order; an entry
\* the file does not hold completely ends the sequence.
RECURSIVE EntriesAt(_, _, _)
EntriesAt(img, pos, remaining) ==
    IF remaining = 0 \/ pos < 0 \/ pos + 4 > Len(img) THEN <<>>
    ELSE IF pos + 4 + LEValue(Slice(img, pos, 4)) + 25 > Len(img) THEN <<>>
    ELSE <<[filename |-> Slice(img, pos + 4, LEValue(Slice(img, pos, 4))),
            data_offset |-> U64Value(Slice(img, pos + 4 + LEValue(Slice(img, pos, 4)), 8)),
            compressed_size |->
                U64Value(Slice(img, pos + 4 + LEValue(Slice(img, pos, 4)) + 8, 8)),
            uncompressed_size |->
                U64Value(Slice(img, pos + 4 + LEValue(Slice(img, pos, 4)) + 16, 8)),
            compression |-> img[pos + 4 + LEValue(Slice(img, pos, 4)) + 25],
            end |-> pos + 4 + LEValue(Slice(img, pos, 4)) + 25]>>
         \o EntriesAt(img, pos + 4 + LEValue(Slice(img, pos, 4)) + 25, remaining - 1)

WrittenDirectory(img) ==
    EntriesAt(img, HeaderOf(img).directory_offset, HeaderOf(img).directory_count)

\* The bytes build appends to the data region for a file entry.
StoredBytes(file) ==
    IF file.compression = none THEN source_bytes(file.source_path)
    ELSE compress(source_bytes(file.source_path), file.compression).value

DistinctPaths(files) ==
    \A i, j \in 1..Len(files) : i # j => files[i].archive_path # files[j].archive_path

\* Every entry of files opens on the reader, one open after the other, and
\* read from start to end yields the bytes of its source.
RECURSIVE ExtractAll(_, _)
ExtractAll(arch, files) ==
    \/ files = <<>>
    \/ /\ archive_open(arch, Head(files).archive_path).ok
       /\ archive_open(arch, Head(files).archive_path).stream.gpos = 0
       /\ drain(archive_open(arch, Head(files).archive_path).stream).data
              = source_bytes(Head(files).source_path)
       /\ ExtractAll(archive_open(arch, Head(files).archive_path).arch, Tail(files))

C14_RecordedSizes ==
    Built
    => /\ Len(WrittenDirectory(BuiltImage)) = Len(files_)
       /\ \A k \in 1..Len(files_) :
             /\ WrittenDirectory(BuiltImage)[k].uncompressed_size
                    = Len(source_bytes(files_[k].source_path))
             /\ WrittenDirectory(BuiltImage)[k].compressed_size = Len(StoredBytes(files_[k]))
             /\ WrittenDirectory(BuiltImage)[k].compression = none
                => /\ WrittenDirectory(BuiltImage)[k].compressed_size
                          = WrittenDirectory(BuiltImage)[k].uncompressed_size
                   /\ Slice(BuiltImage, WrittenDirectory(BuiltImage)[k].data_offset,
                            WrittenDirectory(BuiltImage)[k].compressed_size)
                          = source_bytes(files_[k].source_path)

(***************************************************************************)
(* C15.  Layout of a successfully built container: directory_offset >= 24  *)
(* and directory_count is the number of directory entries written (they    *)
(* end where the file ends); the first entry's data_offset is 24, each     *)
(* next entry's data_offset is the previous data_offset plus the previous  *)
(* compressed_size, and data_offset + compressed_size <= directory_offset  *)
(* for every entry (the last region ends at directory_offset).             *)
(***************************************************************************)
C15_Layout ==
    Built
    => /\ HeaderOf(BuiltImage).magic = MAGIC_NUMBER
       /\ HeaderOf(BuiltImage).version = FORMAT_VERSION
       /\ HeaderOf(BuiltImage).directory_offset >= HeaderSize
       /\ HeaderOf(BuiltImage).directory_count = Len(files_)
       /\ Len(WrittenDirectory(BuiltImage)) = Len(files_)
       /\ Len(files_) = 0 => HeaderOf(BuiltImage).directory_offset = Len(BuiltImage)
       /\ Len(files_) > 0
          => /\ WrittenDirectory(BuiltImage)[Len(files_)].end = Len(BuiltImage)
             /\ WrittenDirectory(BuiltImage)[1].data_offset = HeaderSize
             /\ WrittenDirectory(BuiltImage)[Len(files_)].data_offset
                    + WrittenDirectory(BuiltImage)[Len(files_)].compressed_size
                    = HeaderOf(BuiltImage).directory_offset
       /\ \A k \in 1..(Len(files_) - 1) :
             WrittenDirectory(BuiltImage)[k + 1].data_offset
                = WrittenDirectory(BuiltImage)[k].data_offset
                  + WrittenDirectory(BuiltImage)[k].compressed_size
       /\ \A k \in 1..Len(files_) :
             WrittenDirectory(BuiltImage)[k].data_offset
                + WrittenDirectory(BuiltImage)[k].compressed_size
                <= HeaderOf(BuiltImage).directory_offset

\* A container built from two entries with non-empty data, the first stored
\* deflated and the second raw.
C15_Witness ==
    /\ Built
    /\ Len(files_) = 2
    /\ files_[1].compression = deflate /\ files_[2].compression = none
    /\ WrittenDirectory(BuiltImage)[1].compressed_size > 2
    /\ WrittenDirectory(BuiltImage)[2].compressed_size = 2
    /\ WrittenDirectory(BuiltImage)[2].data_offset > HeaderSize

(***************************************************************************)
(* C16.  For any container produced by the builder, Reader.list_files()    *)
(* is, as a set, exactly the set of archive paths that were added to the   *)
(* builder (after separator normalization), for every archive path string  *)
(* the builder accepts.                                                    *)
(***************************************************************************)
C16_ListingIsWhatWasAdded ==
    Built
    => \A mode \in Modes :
          /\ archive(called.path, mode).ok
          /\ \A files \in archive_list_files(archive(called.path, mode).archive) :
                {files[i] : i \in 1..Len(files)}
                   = {files_[k].archive_path : k \in 1..Len(files_)}

(***************************************************************************)
(* C16 for archive paths the format allows (filename_length > 0): the      *)
(* listing is the set of the paths added.                                  *)
(***************************************************************************)
C16_ListingOfNamedEntries ==
    (Built /\ \A k \in 1..Len(files_) : files_[k].archive_path # <<>>)
    => \A mode \in Modes :
          /\ archive(called.path, mode).ok
          /\ DOMAIN archive(called.path, mode).archive.directory_
                 = {files_[k].archive_path : k \in 1..Len(files_)}

(***************************************************************************)
(* C17.  The compression method of a builder entry is fixed when add_file  *)
(* or add_directory is called: a method other than none is recorded as     *)
(* given, none is replaced by the builder's default at that moment (so an  *)
(* entry is recorded, and then written, with none only if the default is   *)
(* none), and a later set_default_compression changes no entry already     *)
(* added.                                                                  *)
(***************************************************************************)
C17_MethodFixedAtAdd ==
    [][/\ called'.op = "add_file"
          => files_' = Append(files_,
                              [source_path |-> called'.path,
                               archive_path |-> called'.archive_path,
                               compression |-> IF called'.compression # none
                                               THEN called'.compression
                                               ELSE default_compression_])
       /\ called'.op \in {"add_file", "add_directory"}
          => /\ Len(files_') >= Len(files_)
             /\ \A k \in (Len(files_) + 1)..Len(files_') :
                   /\ called'.compression # none
                      => files_'[k].compression = called'.compression
                   /\ called'.compression = none
                      => files_'[k].compression = default_compression_
                   /\ files_'[k].compression = none => default_compression_ = none
       /\ called'.op = "set_default_compression"
          => /\ default_compression_' = called'.compression
             /\ files_' = files_
       /\ called'.op = "build"
          => /\ files_' = files_
             /\ called'.ok
                => /\ Len(WrittenDirectory(disk_'[called'.path])) = Len(files_)
                   /\ \A k \in 1..Len(files_) :
                         WrittenDirectory(disk_'[called'.path])[k].compression
                            = files_[k].compression
       /\ \A k \in 1..Len(files_) : files_'[k] = files_[k]]_vars

\* The default was changed to none after an entry was added, with the
\* sentinel none, under the default deflate; an entry added afterwards with
\* the sentinel is recorded with none.
C17_Witness ==
    /\ Len(files_) = 2
    /\ called.op = "add_file" /\ called.compression = none
    /\ default_compression_ = none
    /\ files_[1].compression = deflate
    /\ files_[2].compression = none

(***************************************************************************)
(* Reader construction on the file at a path.                              *)
(***************************************************************************)
\* The file holds a whole header whose magic or version is not the format's.
HeaderInvalid(path) ==
    /\ file_exists(path)
    /\ Len(file_bytes(path)) >= HeaderSize
    /\ \/ HeaderOf(file_bytes(path)).magic # MAGIC_NUMBER
       \/ HeaderOf(file_bytes(path)).version # FORMAT_VERSION

\* The file ends before its header or before the last of its
\* directory_count directory entries.
Truncated(path) ==
    /\ file_exists(path)
    /\ \/ Len(file_bytes(path)) < HeaderSize
       \/ /\ ~HeaderInvalid(path)
          /\ Len(WrittenDirectory(file_bytes(path)))
                 < HeaderOf(file_bytes(path)).directory_count

\* The directory of the reader holds every entry the header counts.
FullyLoaded(arch) ==
    /\ Len(WrittenDirectory(file_bytes(arch.path_)))
           = HeaderOf(file_bytes(arch.path_)).directory_count
    /\ \A k \in 1..Len(WrittenDirectory(file_bytes(arch.path_))) :
          WrittenDirectory(file_bytes(arch.path_))[k].filename \in DOMAIN arch.directory_

(***************************************************************************)
(* C18.  Constructing a Reader, in either backing mode, on a file whose    *)
(* magic differs from 0x50414B46 or whose version differs from 1 fails: no *)
(* Reader results and the error reported to the caller, by archive::create *)
(* which returns one, is invalid_format.                                   *)
(***************************************************************************)
C18_InvalidFormatReported ==
    \A path \in Paths :
        HeaderInvalid(path)
        => /\ \A mode \in Modes : ~archive(path, mode).ok
           /\ ~archive_create(path).ok
           /\ archive_create(path).error = "invalid_format"

(***************************************************************************)
(* C19.  Reader construction is atomic with respect to truncation: on a    *)
(* file that ends before the 24-byte header or before the last of its      *)
(* directory entries construction fails with read_error and no Reader      *)
(* exists, in disk mode and in memory mode alike; a constructed Reader,    *)
(* mounted ones included, holds the fully loaded directory.                *)
(***************************************************************************)
C19_TruncationAtomic ==
    /\ \A path \in Paths : \A mode \in Modes :
          /\ Truncated(path)
             => /\ ~archive(path, mode).ok
                /\ ConstructionError(path, mode) = "read_error"
          /\ archive(path, mode).ok => FullyLoaded(archive(path, mode).archive)
    /\ \A i \in 1..Len(archives_) : FullyLoaded(archives_[i])

(***************************************************************************)
(* C20.  Constructing a Reader on a path at which no file exists fails     *)
(* with file_not_found in both backing modes, and no Reader results.       *)
(***************************************************************************)
C20_MissingFileNotFound ==
    \A path \in Paths :
        ~file_exists(path)
        => /\ \A mode \in Modes :
                 /\ ~archive(path, mode).ok
                 /\ ConstructionError(path, mode) = "file_not_found"
           /\ ~archive_create(path).ok
           /\ archive_create(path).error = "file_not_found"

SeekTarget(s, args) ==
    CASE args[2] = "beg" -> args[1]
      [] args[2] = "cur" -> s.gpos + args[1]
      [] args[2] = "end" -> Len(s.data_) + args[1]

OtherMode(mode) == IF mode = "disk" THEN "memory" ELSE "disk"

\* What open(filename) returns on the reader arch: success, the data of the
\* stream and the error.
OpenResult(arch, filename) ==
    <<archive_open(arch, filename).ok, archive_open(arch, filename).stream.data_,
      archive_open(arch, filename).error>>

\* The archive object in hand was constructed on path in mode.
ReaderOn(path, mode) ==
    /\ reader_ # <<>>
    /\ reader_[1].path_ = path
    /\ reader_[1].mode_ = mode

(***************************************************************************)
(* C23.  Backing-mode equivalence: on any container file, constructing a   *)
(* Reader in disk mode and in memory mode has the same outcome (the same   *)
(* error, or the same directory), and contains, list_files and open of     *)
(* every path return the same on the Reader in hand as on a Reader of the  *)
(* other mode on the same file (the same bytes or the same error).         *)
(***************************************************************************)
C23_BackingModeEquivalence ==
    /\ returned.op = "archive"
       => /\ returned.ok = archive(returned.args[1], OtherMode(returned.args[2])).ok
          /\ ~returned.ok
             => returned.error
                    = ConstructionError(returned.args[1], OtherMode(returned.args[2]))
          /\ returned.ok
             => returned.value
                    = archive(returned.args[1], OtherMode(returned.args[2]))
                          .archive.directory_
    /\ reader_ # <<>>
       => /\ archive(reader_[1].path_, OtherMode(reader_[1].mode_)).ok
          /\ \A filename \in Names :
                /\ archive_contains(reader_[1], filename)
                       = archive_contains(
                             archive(reader_[1].path_, OtherMode(reader_[1].mode_)).archive,
                             filename)
                /\ OpenResult(reader_[1], filename)
                       = OpenResult(
                             archive(reader_[1].path_, OtherMode(reader_[1].mode_)).archive,
                             filename)
          /\ archive_list_files(reader_[1])
                 = archive_list_files(
                       archive(reader_[1].path_, OtherMode(reader_[1].mode_)).archive)

\* The directory entries of the file the reader in hand is on, in file
\* order, framed as the format lays them out.
FileEntries == WrittenDirectory(file_bytes(reader_[1].path_))

Malformed(entry) == Len(entry.filename) = 0 \/ Len(entry.filename) >= MaxNameLen

\* Entry k of the file is the last one with its name.
LastOfName(k) ==
    \A j \in (k + 1)..Len(FileEntries) : FileEntries[j].filename # FileEntries[k].filename

(***************************************************************************)
(* C24.  Directory framing: an entry whose filename_length is 0 or >= 4096 *)
(* is not inserted into the directory, and the entry after it is parsed    *)
(* from the skipped entry's start + 4 + filename_length + 25 on: every     *)
(* well-formed entry of the file, those after a malformed one included, is *)
(* loaded under its name with its own offset, sizes and method (of entries *)
(* with one name, the last), in disk mode and in memory mode, and the      *)
(* directory holds nothing else.                                           *)
(***************************************************************************)
C24_DirectoryFraming ==
    reader_ # <<>>
    => /\ \A k \in 1..Len(FileEntries) :
             IF Malformed(FileEntries[k])
             THEN FileEntries[k].filename \notin DOMAIN reader_[1].directory_
             ELSE /\ FileEntries[k].filename \in DOMAIN reader_[1].directory_
                  /\ LastOfName(k)
                     => reader_[1].directory_[FileEntries[k].filename]
                            = [data_offset |-> FileEntries[k].data_offset,
                               compressed_size |-> FileEntries[k].compressed_size,
                               uncompressed_size |-> FileEntries[k].uncompressed_size,
                               compression |-> FileEntries[k].compression]
       /\ DOMAIN reader_[1].directory_
              \subseteq {FileEntries[k].filename : k \in 1..Len(FileEntries)}

\* A reader in disk mode on the file whose first entry has a name of 4096
\* bytes: the entry after it is loaded with its offset, behind the data of
\* the first.
C24_Witness ==
    /\ ReaderOn("g.pak", "disk")
    /\ Len(FileEntries) = 2
    /\ Len(FileEntries[1].filename) = MaxNameLen
    /\ DOMAIN reader_[1].directory_ = {name_q}
    /\ reader_[1].directory_[name_q].data_offset = FileEntries[2].data_offset
    /\ reader_[1].directory_[name_q].data_offset > HeaderSize
    /\ returned.op = "open" /\ returned.ok /\ returned.args[1] = name_q
    /\ returned.value = source_bytes("b/q")

\* Entry k of the file is well-formed and the last of several with its name.
LastOfRepeated(k) ==
    /\ ~Malformed(FileEntries[k])
    /\ LastOfName(k)
    /\ \E j \in 1..(k - 1) : FileEntries[j].filename = FileEntries[k].filename

\* The data the file holds for an entry: its range, decoded with its method.
EntryData(img, entry) ==
    decompress(Slice(img, entry.data_offset, entry.compressed_size), entry.compression,
               entry.uncompressed_size).value

(***************************************************************************)
(* C25.  Duplicate names: when the directory of a container lists a        *)
(* filename more than once, the Reader holds one entry for the name, the   *)
(* last in directory order: contains is true, list_files shows the name    *)
(* once and open returns the data of that last entry.                      *)
(***************************************************************************)
C25_DuplicateNames ==
    reader_ # <<>>
    => \A k \in 1..Len(FileEntries) :
          LastOfRepeated(k)
          => /\ archive_contains(reader_[1], FileEntries[k].filename)
             /\ reader_[1].directory_[FileEntries[k].filename].data_offset
                    = FileEntries[k].data_offset
             /\ reader_[1].directory_[FileEntries[k].filename].compression
                    = FileEntries[k].compression
             /\ \A files \in archive_list_files(reader_[1]) :
                   Cardinality({i \in 1..Len(files) : files[i] = FileEntries[k].filename}) = 1
             /\ OpenResult(reader_[1], FileEntries[k].filename)
                    = <<TRUE, EntryData(file_bytes(reader_[1].path_), FileEntries[k]), "">>
             /\ (returned.op = "contains" /\ returned.args[1] = FileEntries[k].filename)
                => returned.value
             /\ returned.op = "list_files"
                => Cardinality({i \in 1..Len(returned.value) :
                                   returned.value[i] = FileEntries[k].filename}) = 1
             /\ (returned.op = "open" /\ returned.args[1] = FileEntries[k].filename)
                => /\ returned.ok
                   /\ returned.value = EntryData(file_bytes(reader_[1].path_), FileEntries[k])

\* On the container that lists p twice, first deflated from one source and
\* then stored from another, open(p) has returned the bytes of the second
\* source.
C25_Witness ==
    /\ ReaderOn("u.pak", "memory")
    /\ Len(FileEntries) = 2
    /\ FileEntries[1].filename = name_p /\ FileEntries[2].filename = name_p
    /\ returned.op = "open" /\ returned.ok /\ returned.args[1] = name_p
    /\ returned.value = source_bytes(ReaderSources["u.pak"][2].source_path)
    /\ returned.value # source_bytes(ReaderSources["u.pak"][1].source_path)
    /\ DOMAIN reader_[1].directory_ = {name_p}

\* The range [offset, offset + length) of u64 offset and length, taken over
\* unbounded integers, lies inside a buffer of size bytes.  A negative
\* number stands for a u64 from 2^63 on, which no buffer size reaches.
RangeInside(offset, length, size) ==
    offset >= 0 /\ length >= 0 /\ offset + length <= size

\* The file at path has a valid header but does not hold all the directory
\* entries its header counts from directory_offset on.
DirectoryOutside(path) ==
    /\ file_exists(path)
    /\ Len(file_bytes(path)) >= HeaderSize
    /\ ~HeaderInvalid(path)
    /\ Len(WrittenDirectory(file_bytes(path))) < HeaderOf(file_bytes(path)).directory_count

(***************************************************************************)
(* C26.  Memory-mode bounds: whatever u64 directory_offset, data_offset    *)
(* and compressed_size a container holds, sums beyond 2^64 - 1 included,   *)
(* directory load and open in memory mode do not read outside the buffer:  *)
(* when the range asked for, computed over unbounded integers, is not      *)
(* inside the buffer, construction and open return read_error.             *)
(***************************************************************************)
C26_MemoryBounds ==
    /\ (/\ returned.op = "archive"
        /\ returned.args[2] = "memory"
        /\ DirectoryOutside(returned.args[1]))
       => /\ ~returned.ok
          /\ returned.error = "read_error"
    /\ (/\ returned.op = "open"
        /\ reader_ # <<>>
        /\ reader_[1].mode_ = "memory"
        /\ returned.args[1] \in DOMAIN reader_[1].directory_
        /\ ~RangeInside(reader_[1].directory_[returned.args[1]].data_offset,
                        reader_[1].directory_[returned.args[1]].compressed_size,
                        Len(reader_[1].memory_data_)))
       => /\ ~returned.ok
          /\ returned.error = "read_error"

(***************************************************************************)
(* C26 where no u64 sum wraps and no size reaches 2^63: an entry whose     *)
(* range ends beyond the buffer is answered with read_error, and a         *)
(* directory cut short fails construction with read_error.                 *)
(***************************************************************************)
C26_MemoryBoundsWithoutWrap ==
    /\ (/\ returned.op = "archive"
        /\ returned.args[2] = "memory"
        /\ DirectoryOutside(returned.args[1])
        /\ HeaderOf(file_bytes(returned.args[1])).directory_offset >= 0)
       => /\ ~returned.ok
          /\ returned.error = "read_error"
    /\ (/\ returned.op = "open"
        /\ reader_ # <<>>
        /\ reader_[1].mode_ = "memory"
        /\ returned.args[1] \in DOMAIN reader_[1].directory_
        /\ reader_[1].directory_[returned.args[1]].data_offset >= 0
        /\ reader_[1].directory_[returned.args[1]].compressed_size >= 0
        /\ ~RangeInside(reader_[1].directory_[returned.args[1]].data_offset,
                        reader_[1].directory_[returned.args[1]].compressed_size,
                        Len(reader_[1].memory_data_)))
       => /\ ~returned.ok
          /\ returned.error = "read_error"

(***************************************************************************)
(* Builder ordering and fail-fast.                                         *)
(***************************************************************************)
\* A source that cannot be opened or read: no file of that name, or a
\* directory.
Unreadable(file) == ~source_exists(file.source_path)

\* An entry whose method the codec rejects.
Rejected(file) ==
    file.compression # none
    /\ ~compress(source_bytes(file.source_path), file.compression).ok

\* The index of the first entry in insertion order that build cannot
\* store, 0 when there is none.
FirstFailing(files) ==
    LET failing == {i \in 1..Len(files) : Unreadable(files[i]) \/ Rejected(files[i])}
    IN  IF failing = {} THEN 0 ELSE SetMin(failing)

\* The data region of the first k entries.
RECURSIVE StoredUpTo(_, _)
StoredUpTo(files, k) ==
    IF k = 0 THEN <<>> ELSE StoredUpTo(files, k - 1) \o StoredBytes(files[k])

\* build stops at the first failing entry with that entry's error,
\* unreadable being the error of an unreadable source, and leaves the
\* placeholder header followed by the data of the entries before it; only
\* a build that stored every entry carries a directory offset, the end of
\* its data region; without an output file the error is write_error and no
\* file is written.
FailFast(unreadable) ==
    called.op = "build" =>
        IF ~output_opens(called.path)
        THEN ~called.ok /\ called.error = "write_error"
             /\ file_bytes(called.path) = <<>>
        ELSE LET Stopped(k) ==
                     IF k = 0
                     THEN /\ called.ok
                          /\ HeaderOf(BuiltImage).directory_offset
                               = HeaderSize + Len(StoredUpTo(files_, Len(files_)))
                          /\ HeaderOf(BuiltImage).directory_offset # 0
                     ELSE /\ ~called.ok
                          /\ called.error = IF Unreadable(files_[k])
                                            THEN unreadable
                                            ELSE "compression_error"
                          /\ BuiltImage = header_bytes(0, Len(files_))
                                          \o StoredUpTo(files_, k - 1)
                          /\ HeaderOf(BuiltImage).directory_offset = 0
             IN  Stopped(FirstFailing(files_))

\* C27: build handles the entries in insertion order and returns at the
\* first error, file_not_found for a source that cannot be opened or read,
\* compression_error from the codec, write_error when the output fails,
\* without writing anything of a later entry; the output of a failed build
\* keeps directory_offset = 0, and the header is rewritten only after all
\* data and all directory entries were written.
C27_FailFast == FailFast("file_not_found")

\* The same with the sources that are directories set apart: there build is
\* left by the exception of the vector constructor; everything else of C27
\* holds, for these entries too.
C27_FailFastOrException ==
    called.op = "build" =>
        LET Stopped(k) ==
                IF k # 0 /\ output_opens(called.path)
                         /\ source_opens(files_[k].source_path)
                         /\ Unreadable(files_[k])
                THEN FailFast("bad_alloc")
                ELSE FailFast("file_not_found")
        IN  Stopped(FirstFailing(files_))

\* A build that failed at its second entry after the data of the first was
\* written.
C27_Witness ==
    /\ called.op = "build" /\ ~called.ok
    /\ FirstFailing(files_) = 2
    /\ output_opens(called.path)
    /\ Len(BuiltImage) > HeaderSize

(***************************************************************************)
(* C28.  History independence of a disk-mode Reader: what open(filename)   *)
(* returns depends on the container and on filename only, not on the       *)
(* opens made before on the same Reader: it is what a Reader constructed   *)
(* afresh on the same file returns.  In particular an open that follows    *)
(* one that failed with read_error still delivers the bytes of a           *)
(* well-formed entry.                                                      *)
(***************************************************************************)
C28_HistoryIndependence ==
    (returned.op = "open" /\ ReaderOn(reader_[1].path_, "disk")) =>
        <<returned.ok, returned.value, returned.error>>
            = OpenResult(archive(reader_[1].path_, "disk").archive, returned.args[1])

(***************************************************************************)
(* C29.  decompress with deflate succeeds only when inflate reached the    *)
(* end marker of the stream: for a stream that ends before its end marker  *)
(* (a proper prefix of a deflate stream, the empty input included) it      *)
(* returns decompression_failed, never a success with partial or empty     *)
(* output.                                                                 *)
(***************************************************************************)
C29_TruncatedStreamFails ==
    (returned.op = "decompress" /\ returned.args[2] = deflate) =>
        /\ returned.ok => zlib_inflate(returned.args[1], <<>>).result = "Z_STREAM_END"
        /\ (/\ returned.args[1] \in Prefixes(zlib_deflate(bytes_))
            /\ returned.args[1] # zlib_deflate(bytes_))
           => /\ ~returned.ok
              /\ returned.error = "decompression_failed"

(***************************************************************************)
(* C30.  enable_cache and set_search_order change only their own setting:  *)
(* the mount list and the cache, keys and bytes, are as before, so         *)
(* cache_size() is the same before and after; what was cached before       *)
(* enable_cache(false) is kept and is served again by open once caching    *)
(* is enabled, without a call on any Reader.                               *)
(***************************************************************************)
C30_SettingsOnly ==
    [][/\ last'.op = "enable_cache"
          => /\ archives_' = archives_
             /\ search_order_' = search_order_
             /\ cache_' = cache_
             /\ cache_size(cache_') = cache_size(cache_)
       /\ last'.op = "set_search_order"
          => /\ archives_' = archives_
             /\ cache_enabled_' = cache_enabled_
             /\ cache_' = cache_
             /\ cache_size(cache_') = cache_size(cache_)
       /\ \A n \in Names :
             (IsOpen(n) /\ cache_enabled_ /\ n \in DOMAIN cache_)
             => /\ last'.ok
                /\ last'.stream.data_ = cache_[n]
                /\ last'.calls = 0
                /\ archives_' = archives_
                /\ cache_' = cache_]_vars

\* An open served from the cache, with Readers mounted and none called,
\* after caching was switched off and on again: the cache holds two names
\* from before, and of the names opened since caching was last switched off
\* there is only this one.
C30_Witness ==
    /\ last.op = "open" /\ last.ok /\ last.calls = 0
    /\ Len(archives_) > 0
    /\ cache_enabled_
    /\ cache_size(cache_) = 2
    /\ DOMAIN opened = {last.filename}
    /\ last.stream.data_ = cache_[last.filename]

====
